---- MODULE Spec2Model ----
(***************************************************************************)
(* Model of the laendlefinder crawl sequencer and reconciler:              *)
(*   common_scraper.rs  scrape_single_url, run_scraper_with_options,       *)
(*                      deduplicate_properties_by_url                      *)
(*   utils.rs           sanitize_url, load_properties_from_csv,            *)
(*                      save_properties_to_csv                             *)
(* Option<T> is modelled as a sequence: <<>> is None, <<v>> is Some(v).    *)
(* A url is a sequence of tokens; "?" and "#" are the separator tokens.    *)
(* A calendar date is a day number.                                        *)
(***************************************************************************)
EXTENDS Integers, Sequences, FiniteSets, TLC

VARIABLES
    file,            \* the catalog file: [exists, rows]
    backup,          \* properties_backup.csv: [exists, rows]
    pc,              \* position of the running entry point
    entry,           \* "none", "bulk" or "single"
    options,         \* ScrapingOptions of the run (plus the single target url)
    today,           \* chrono::Utc::now().naive_utc().date()
    all_properties,  \* the in-memory catalog of the run
    loaded,          \* the catalog as load returned it
    urls_to_scrape,  \* the frontier
    idx,             \* number of frontier urls already handled by the loop
    newly_scraped,   \* snapshots fetched by this run, in fetch order
    failed_urls,     \* <<url, reason>> pairs
    attempted,       \* urls handed to scrape_property, in order
    save_rows,       \* argument of the save in progress
    save_pos,        \* rows of save_rows already written
    save_ret,        \* where the run continues after the save
    pre_save,        \* the catalog file as it was when the save in progress began
    durable,         \* urls of the snapshots whose checkpoint completed
    tui,             \* what the terminal renderer was asked to show, in order
    result,          \* <<"running">>, <<"ok">>, <<"killed">> or <<"err", ...>>
    saves,           \* saves completed by the run
    at_start,        \* the catalog file and the backup as the run found them
    found_urls,      \* what scrape_new_urls / scrape_listings returned
    relevant_properties, \* refresh mode: the selected entries, sorted; each carries
                     \* its index in all_properties (the Vec holds references)
    m_existing,      \* reconciler: the entry before the last merge
    m_fresh,         \* reconciler: the snapshot of the last merge
    m_merged,        \* reconciler: the entry after the last merge
    m_site,          \* reconciler: which merge site acted last
    m_group,         \* reconciler: the fields the snapshots of this sequence vary in
    d_in,            \* deduplicate: the input catalog
    d_out,           \* deduplicate: deduplicate(d_in)
    d_out2,          \* deduplicate: deduplicate(d_out)
    d_phase,         \* deduplicate: "input", "once" or "twice"
    c_url,           \* sanitize_url: the input url
    c_once,          \* sanitize_url: sanitize_url(c_url)
    c_twice,         \* sanitize_url: sanitize_url(c_once)
    c_phase,         \* sanitize_url: "input", "once" or "twice"
    s_in,            \* refresh selection: the catalog
    s_out,           \* refresh selection: prioritized_urls
    s_phase,         \* refresh selection: "input" or "sorted"
    o_existing,      \* merge order: the entry
    o_first,         \* merge order: one snapshot of the url of the entry
    o_second,        \* merge order: another snapshot, of the same day
    o_ab,            \* merge order: the entry after o_first, then o_second
    o_ba,            \* merge order: the entry after o_second, then o_first
    o_site,          \* merge order: "none", "dedup" or "single"
    r_in,           \* round trip: the catalog saved
    r_file,         \* round trip: the records of the file written
    r_out,          \* round trip: what load returned for r_file
    r_phase,        \* round trip: "input", "saved", "loaded" or "failed"
    q_file,         \* two runs: the catalog file both runs use
    q_backup,       \* two runs: properties_backup.csv
    q_pc,           \* two runs: position of the run that saves
    q_loaded,       \* two runs: what the saving run loaded
    q_rows,         \* two runs: the catalog the saving run writes
    q_pos,          \* two runs: rows of q_rows already written
    q_other,        \* two runs: the other run: its position, what it loaded, and whether it loaded inside the save
    e_catalog,      \* single update: the catalog in memory
    e_property,     \* single update: the snapshot fetched for its own url
    e_single,       \* single update: the catalog scrape_single_url saves
    e_dedup,        \* single update: deduplicate(e_catalog followed by e_property)
    e_phase,        \* single update: "input" or "updated"
    b_x,            \* reconcile: the catalog the run loaded
    b_y,            \* reconcile: the snapshots of the run, in fetch order
    b_k,            \* reconcile: the checkpoint after which the file is reloaded
    b_batch,        \* reconcile: deduplicate(b_x followed by b_y)
    b_incremental,  \* reconcile: deduplicate(deduplicate(b_x) followed by b_y)
    b_reloaded,     \* reconcile: the same from the reloaded file of checkpoint b_k
    b_phase,        \* reconcile: "input" or "reconciled"
    w_existing,     \* merge_properties_with_refresh: existing_properties
    w_result,       \* merge_properties_with_refresh: the ScrapingResult
    w_out,          \* merge_properties_with_refresh: the catalog returned
    w_phase,        \* merge_properties_with_refresh: "input" or "merged"
    g_platform,     \* the legacy sequencer: "vol" or "laendleimmo"
    g_max_pages,    \* Args::max_pages
    g_max_items,    \* Args::max_items, an Option
    g_existing,     \* existing_urls of the sequencer
    g_page,         \* the page the enumeration requests next
    g_requested,    \* the listing pages requested so far: [page, outcome]
    g_urls,         \* all_property_urls / property_urls
    g_i,            \* position of the item loop in property_urls
    g_new,          \* new_properties (their urls)
    g_fetched,      \* the property pages fetched so far
    g_phase         \* "pages", "items", "done" or "err"

runVars == <<file, backup, pc, entry, options, today, all_properties, loaded,
             urls_to_scrape, idx, newly_scraped, failed_urls, attempted,
             save_rows, save_pos, save_ret, pre_save, durable, tui, result, saves, at_start,
             found_urls, relevant_properties>>
selectVars == <<found_urls, relevant_properties>>
mergeVars == <<m_existing, m_fresh, m_merged, m_site, m_group>>
dedupVars == <<d_in, d_out, d_out2, d_phase>>
canonVars == <<c_url, c_once, c_twice, c_phase>>
sortVars == <<s_in, s_out, s_phase>>
orderVars == <<o_existing, o_first, o_second, o_ab, o_ba, o_site>>
roundVars == <<r_in, r_file, r_out, r_phase>>
raceVars == <<q_file, q_backup, q_pc, q_loaded, q_rows, q_pos, q_other>>
equivVars == <<e_catalog, e_property, e_single, e_dedup, e_phase>>
batchVars == <<b_x, b_y, b_k, b_batch, b_incremental, b_reloaded, b_phase>>
refreshVars == <<w_existing, w_result, w_out, w_phase>>
legacyVars == <<g_platform, g_max_pages, g_max_items, g_existing, g_page, g_requested, g_urls, g_i, g_new, g_fetched, g_phase>>
fnVars == <<mergeVars, dedupVars, canonVars, sortVars, orderVars, roundVars, raceVars, equivVars, batchVars, refreshVars, legacyVars>>
vars == <<runVars, fnVars>>

----
(* Bounds *)

MaxDay == 2
MaxCatalog == 3
MaxRows == 2
MaxFound == 2
MaxUrlLen == 3
MaxPages == 2

----
(* Data model: models.rs / the Property literals of common_scraper.rs *)

None == <<>>
Some(v) == <<v>>

\* Option::or
\* Option::or with the operands exchanged
OrOther(a, b) == IF b # None THEN b ELSE a

Or(a, b) == IF a # None THEN a ELSE b

U1 == <<"laendleimmo.at", "1">>
U1q == <<"laendleimmo.at", "1", "?", "utm">>
U1f == <<"laendleimmo.at", "1", "#", "top">>
U2 == <<"laendleimmo.at", "2">>
U3 == <<"laendleimmo.at", "3">>
V1 == <<"vol.at", "1">>

ListingTypes == {"Available", "Sold", "Unavailable"}
PropertyTypes == {"Apartment", "House", "Land", "Unknown"}
Names == {"", "Unknown Property", "Unavailable Property", "Haus A", "Haus B"}
Prices == {"", "Unknown", "Unavailable", "300000", "350000"}
Locations == {"", "Unknown", "Bregenz", "Dornbirn"}
OptStrings == {None, Some(""), Some("Main St 1"), Some("Other St 2")}
OptCoordinates == {None, Some(<<47, 9>>), Some(<<48, 10>>)}
OptDates == {None} \cup {Some(d) : d \in 1..MaxDay}

Property(url, name, price, location, property_type, listing_type, date, coordinates, address, size_living, size_ground, first_seen, last_seen) ==
    [url |-> url, name |-> name, price |-> price, location |-> location,
     property_type |-> property_type, listing_type |-> listing_type,
     date |-> date, coordinates |-> coordinates, address |-> address,
     size_living |-> size_living, size_ground |-> size_ground,
     first_seen |-> first_seen, last_seen |-> last_seen]

----
(* utils.rs: sanitize_url *)

\* str::split(ch).next(): the part before the first occurrence of ch
RECURSIVE SplitFirst(_, _)
SplitFirst(url, ch) ==
    IF url = <<>> THEN <<>>
    ELSE IF Head(url) = ch THEN <<>>
    ELSE <<Head(url)>> \o SplitFirst(Tail(url), ch)

\* sanitize_url stripping the query string only
sanitize_urlQueryOnly(url) == SplitFirst(url, "?")

sanitize_url(url) == SplitFirst(SplitFirst(url, "?"), "#")

----
(* common_scraper.rs: the merge of deduplicate_properties_by_url *)

BecameUnavailable(existing, property) ==
    property.listing_type = "Unavailable" /\ existing.listing_type # "Unavailable"

\* MergeUnavailable with the status of the entry kept
MergeUnavailableKeepsStatus(existing, property) ==
    Property(
        property.url,
        IF existing.name # "Unknown Property" /\ existing.name # "Unavailable Property"
            THEN existing.name ELSE property.name,
        existing.price,
        IF existing.location # "Unknown" THEN existing.location ELSE property.location,
        IF existing.property_type # "Unknown"
            THEN existing.property_type ELSE property.property_type,
        existing.listing_type,
        Or(existing.date, property.date),
        Or(existing.coordinates, property.coordinates),
        Or(existing.address, property.address),
        Or(existing.size_living, property.size_living),
        Or(existing.size_ground, property.size_ground),
        Or(existing.first_seen, property.first_seen),
        Or(existing.last_seen, property.last_seen))

MergeUnavailable(existing, property) ==
    Property(
        property.url,
        IF existing.name # "Unknown Property" /\ existing.name # "Unavailable Property"
            THEN existing.name ELSE property.name,
        existing.price,
        IF existing.location # "Unknown" THEN existing.location ELSE property.location,
        IF existing.property_type # "Unknown"
            THEN existing.property_type ELSE property.property_type,
        property.listing_type,
        Or(existing.date, property.date),
        Or(existing.coordinates, property.coordinates),
        Or(existing.address, property.address),
        Or(existing.size_living, property.size_living),
        Or(existing.size_ground, property.size_ground),
        Or(existing.first_seen, property.first_seen),
        Or(existing.last_seen, property.last_seen))

\* MergeNormal with first_seen taken from the snapshot first
MergeNormalFreshFirstSeen(existing, property) ==
    Property(
        property.url,
        IF property.name = "" \/ property.name = "Unknown Property"
              \/ property.name = "Unavailable Property"
            THEN existing.name ELSE property.name,
        IF property.price = "" \/ property.price = "Unknown" \/ property.price = "Unavailable"
            THEN existing.price ELSE property.price,
        IF property.location = "" \/ property.location = "Unknown"
            THEN existing.location ELSE property.location,
        IF property.property_type = "Unknown"
            THEN existing.property_type ELSE property.property_type,
        property.listing_type,
        Or(property.date, existing.date),
        Or(property.coordinates, existing.coordinates),
        Or(property.address, existing.address),
        Or(property.size_living, existing.size_living),
        Or(property.size_ground, existing.size_ground),
        Or(property.first_seen, existing.first_seen),
        Or(property.last_seen, existing.last_seen))

MergeNormal(existing, property) ==
    Property(
        property.url,
        IF property.name = "" \/ property.name = "Unknown Property"
              \/ property.name = "Unavailable Property"
            THEN existing.name ELSE property.name,
        IF property.price = "" \/ property.price = "Unknown" \/ property.price = "Unavailable"
            THEN existing.price ELSE property.price,
        IF property.location = "" \/ property.location = "Unknown"
            THEN existing.location ELSE property.location,
        IF property.property_type = "Unknown"
            THEN existing.property_type ELSE property.property_type,
        property.listing_type,
        Or(property.date, existing.date),
        Or(property.coordinates, existing.coordinates),
        Or(property.address, existing.address),
        Or(property.size_living, existing.size_living),
        Or(property.size_ground, existing.size_ground),
        Or(existing.first_seen, property.first_seen),
        Or(property.last_seen, existing.last_seen))

merged_property(existing, property) ==
    IF BecameUnavailable(existing, property)
        THEN MergeUnavailable(existing, property)
        ELSE MergeNormal(existing, property)

\* result.iter().position(|p| p.url == url); 0 stands for Option::None
RECURSIVE PositionFrom(_, _, _)
PositionFrom(props, url, i) ==
    IF i > Len(props) THEN 0
    ELSE IF props[i].url = url THEN i
    ELSE PositionFrom(props, url, i + 1)

position(props, url) == PositionFrom(props, url, 1)

\* DedupFold forgetting a url once it has merged a row into its entry, so that a
\* third row of that url is appended as a new entry
RECURSIVE DedupFoldForgetsSeen(_, _, _)
DedupFoldForgetsSeen(properties0, res0, seen_urls0) ==
    IF properties0 = <<>> THEN res0
    ELSE CHOOSE out \in
        {LET property == Head(properties) IN
            IF property.url \notin seen_urls
            THEN DedupFoldForgetsSeen(Tail(properties), Append(res, property),
                                      seen_urls \cup {property.url})
            ELSE LET existing_pos == position(res, property.url) IN
                IF existing_pos = 0
                THEN DedupFoldForgetsSeen(Tail(properties), res, seen_urls)
                ELSE DedupFoldForgetsSeen(Tail(properties),
                        [res EXCEPT ![existing_pos] =
                            merged_property(res[existing_pos], property)],
                        seen_urls \ {property.url})
         : properties \in {properties0}, res \in {res0}, seen_urls \in {seen_urls0}} : TRUE

\* DedupFold moving an entry to the end of the result whenever a row is merged into it
RECURSIVE DedupFoldMovesToEnd(_, _, _)
DedupFoldMovesToEnd(properties0, res0, seen_urls0) ==
    IF properties0 = <<>> THEN res0
    ELSE CHOOSE out \in
        {LET property == Head(properties) IN
            IF property.url \notin seen_urls
            THEN DedupFoldMovesToEnd(Tail(properties), Append(res, property),
                                     seen_urls \cup {property.url})
            ELSE LET existing_pos == position(res, property.url) IN
                IF existing_pos = 0
                THEN DedupFoldMovesToEnd(Tail(properties), res, seen_urls)
                ELSE DedupFoldMovesToEnd(Tail(properties),
                        Append(SubSeq(res, 1, existing_pos - 1)
                                   \o SubSeq(res, existing_pos + 1, Len(res)),
                               merged_property(res[existing_pos], property)),
                        seen_urls)
         : properties \in {properties0}, res \in {res0}, seen_urls \in {seen_urls0}} : TRUE

\* The loop of deduplicate_properties_by_url over the rows still to visit.  The
\* three loop variables are bound to their values once per iteration (the
\* singleton sets), so that an iteration costs the same wherever it is evaluated.
RECURSIVE DedupFold(_, _, _)
DedupFold(properties0, res0, seen_urls0) ==
    IF properties0 = <<>> THEN res0
    ELSE CHOOSE out \in
        {LET property == Head(properties) IN
            IF property.url \notin seen_urls
            THEN DedupFold(Tail(properties), Append(res, property),
                           seen_urls \cup {property.url})
            ELSE LET existing_pos == position(res, property.url) IN
                IF existing_pos = 0
                THEN DedupFold(Tail(properties), res, seen_urls)
                ELSE DedupFold(Tail(properties),
                        [res EXCEPT ![existing_pos] =
                            merged_property(res[existing_pos], property)],
                        seen_urls)
         : properties \in {properties0}, res \in {res0}, seen_urls \in {seen_urls0}} : TRUE

deduplicate_properties_by_url(properties) == DedupFold(properties, <<>>, {})

----
(* common_scraper.rs: the merge of scrape_single_url *)

SingleMergeUnavailable(existing, property) ==
    Property(
        property.url,
        IF existing.name # "Unknown Property" /\ existing.name # "Unavailable Property"
            THEN existing.name ELSE property.name,
        existing.price,
        IF existing.location # "Unknown" THEN existing.location ELSE property.location,
        IF existing.property_type # "Unknown"
            THEN existing.property_type ELSE property.property_type,
        property.listing_type,
        Or(existing.date, property.date),
        Or(existing.coordinates, property.coordinates),
        Or(existing.address, property.address),
        Or(existing.size_living, property.size_living),
        Or(existing.size_ground, property.size_ground),
        Or(existing.first_seen, property.first_seen),
        Or(existing.last_seen, property.last_seen))

SingleMergeNormal(existing, property) ==
    Property(
        property.url,
        IF property.name = "" \/ property.name = "Unknown Property"
              \/ property.name = "Unavailable Property"
            THEN existing.name ELSE property.name,
        IF property.price = "" \/ property.price = "Unknown" \/ property.price = "Unavailable"
            THEN existing.price ELSE property.price,
        IF property.location = "" \/ property.location = "Unknown"
            THEN existing.location ELSE property.location,
        IF property.property_type = "Unknown"
            THEN existing.property_type ELSE property.property_type,
        property.listing_type,
        Or(property.date, existing.date),
        Or(property.coordinates, existing.coordinates),
        Or(property.address, existing.address),
        Or(property.size_living, existing.size_living),
        Or(property.size_ground, existing.size_ground),
        Or(existing.first_seen, property.first_seen),
        Or(property.last_seen, existing.last_seen))

single_merged_property(existing, property) ==
    IF property.listing_type = "Unavailable" /\ existing.listing_type # "Unavailable"
        THEN SingleMergeUnavailable(existing, property)
        ELSE SingleMergeNormal(existing, property)

----
(* Values the specifications draw their inputs from *)

Base(url) ==
    Property(url, "Haus A", "300000", "Bregenz", "House", "Available",
             None, None, None, None, None, None, None)

WithListing(S) == {[p EXCEPT !.listing_type = l] : p \in S, l \in ListingTypes}

\* Snapshots of one url, grouped by the fields they differ in.
MergeGroup ==
    [name |-> {[Base(U1) EXCEPT !.name = v] : v \in Names},
     price |-> {[Base(U1) EXCEPT !.price = v] : v \in Prices},
     location |-> {[Base(U1) EXCEPT !.location = v] : v \in Locations},
     property_type |-> {[Base(U1) EXCEPT !.property_type = v] : v \in PropertyTypes},
     date |-> {[Base(U1) EXCEPT !.date = v] : v \in OptDates},
     coordinates |-> {[Base(U1) EXCEPT !.coordinates = v] : v \in OptCoordinates},
     address |-> {[Base(U1) EXCEPT !.address = v] : v \in OptStrings},
     size_living |-> {[Base(U1) EXCEPT !.size_living = v] : v \in OptStrings},
     size_ground |-> {[Base(U1) EXCEPT !.size_ground = v] : v \in OptStrings},
     seen |-> {[Base(U1) EXCEPT !.first_seen = f, !.last_seen = l] :
                  f \in OptDates, l \in OptDates},
     mixed |-> {[Base(U1) EXCEPT !.name = n, !.price = p, !.address = a, !.first_seen = f] :
                  n \in {"Unknown Property", "Haus B"}, p \in {"Unavailable", "350000"},
                  a \in {None, Some("Main St 1")}, f \in {None, Some(1)}}]

MergeDomain(g) == WithListing(MergeGroup[g])

\* Catalog rows for the deduplicate specification.
DedupDomain ==
    {[Base(u) EXCEPT !.listing_type = l, !.price = p, !.first_seen = f, !.last_seen = f] :
        u \in {U1, U2}, l \in {"Available", "Unavailable"},
        p \in {"300000", "Unavailable"}, f \in {None, Some(1)}}

RECURSIVE SeqsUpTo(_, _)
SeqsUpTo(S, n) ==
    IF n = 0 THEN {<<>>}
    ELSE LET shorter == SeqsUpTo(S, n - 1) IN
        shorter \cup {Append(q, x) : q \in {r \in shorter : Len(r) = n - 1}, x \in S}

NoFile == [exists |-> FALSE, rows |-> <<>>]
NoOptions ==
    [refresh_days |-> None, new |-> TRUE, max_items |-> None,
     base_url |-> "laendleimmo.at", url |-> <<>>]

RunIdle ==
    /\ file = NoFile
    /\ backup = NoFile
    /\ pc = "idle"
    /\ entry = "none"
    /\ options = NoOptions
    /\ today = 1
    /\ all_properties = <<>>
    /\ loaded = <<>>
    /\ urls_to_scrape = <<>>
    /\ idx = 0
    /\ newly_scraped = <<>>
    /\ failed_urls = <<>>
    /\ attempted = <<>>
    /\ save_rows = <<>>
    /\ save_pos = 0
    /\ save_ret = "idle"
    /\ pre_save = NoFile
    /\ durable = {}
    /\ tui = <<>>
    /\ result = <<"running">>
    /\ saves = 0
    /\ at_start = [file |-> NoFile, backup |-> NoFile]
    /\ found_urls = <<>>
    /\ relevant_properties = <<>>

MergeIdle ==
    /\ m_existing = Base(U1)
    /\ m_fresh = Base(U1)
    /\ m_merged = Base(U1)
    /\ m_site = "none"
    /\ m_group = "name"

DedupIdle ==
    /\ d_in = <<>>
    /\ d_out = <<>>
    /\ d_out2 = <<>>
    /\ d_phase = "input"

CanonIdle ==
    /\ c_url = <<>>
    /\ c_once = <<>>
    /\ c_twice = <<>>
    /\ c_phase = "input"

SortIdle ==
    /\ s_in = <<>>
    /\ s_out = <<>>
    /\ s_phase = "input"

OrderIdle ==
    /\ o_existing = Base(U1)
    /\ o_first = Base(U1)
    /\ o_second = Base(U1)
    /\ o_ab = Base(U1)
    /\ o_ba = Base(U1)
    /\ o_site = "none"

RoundIdle ==
    /\ r_in = <<>>
    /\ r_file = <<>>
    /\ r_out = <<>>
    /\ r_phase = "input"

RaceIdle ==
    /\ q_file = NoFile
    /\ q_backup = NoFile
    /\ q_pc = "idle"
    /\ q_loaded = <<>>
    /\ q_rows = <<>>
    /\ q_pos = 0
    /\ q_other = [pc |-> "idle", loaded |-> <<>>, torn |-> FALSE]

EquivIdle ==
    /\ e_catalog = <<>>
    /\ e_property = Base(U1)
    /\ e_single = <<>>
    /\ e_dedup = <<>>
    /\ e_phase = "input"

BatchIdle ==
    /\ b_x = <<>>
    /\ b_y = <<>>
    /\ b_k = 0
    /\ b_batch = <<>>
    /\ b_incremental = <<>>
    /\ b_reloaded = <<>>
    /\ b_phase = "input"

RefreshIdle ==
    /\ w_existing = <<>>
    /\ w_result = [scraped_properties |-> <<>>, scraped_urls |-> <<>>, is_refresh |-> FALSE]
    /\ w_out = <<>>
    /\ w_phase = "input"

LegacyIdle ==
    /\ g_platform = "vol"
    /\ g_max_pages = 0
    /\ g_max_items = <<>>
    /\ g_existing = {}
    /\ g_page = 1
    /\ g_requested = <<>>
    /\ g_urls = <<>>
    /\ g_i = 1
    /\ g_new = <<>>
    /\ g_fetched = <<>>
    /\ g_phase = "pages"

----
(* The reconciler applied to one url: a sequence of merges *)

InitMerge ==
    /\ RunIdle
    /\ DedupIdle
    /\ CanonIdle
    /\ SortIdle
    /\ OrderIdle
    /\ RoundIdle
    /\ RaceIdle
    /\ EquivIdle
    /\ BatchIdle
    /\ RefreshIdle
    /\ LegacyIdle
    /\ m_group \in DOMAIN MergeGroup
    /\ m_merged \in MergeDomain(m_group)
    /\ m_existing = m_merged
    /\ m_fresh = m_merged
    /\ m_site = "none"

\* deduplicate_properties_by_url meets a second row for the url
MergeInDedup ==
    \E property \in MergeDomain(m_group) :
        /\ m_existing' = m_merged
        /\ m_fresh' = property
        /\ m_merged' = deduplicate_properties_by_url(<<m_merged, property>>)[1]
        /\ m_site' = "dedup"
        /\ UNCHANGED <<m_group, runVars, dedupVars, canonVars, sortVars, orderVars, roundVars, raceVars,
                   equivVars, batchVars, refreshVars, legacyVars>>

\* scrape_single_url finds the url at existing_position
MergeInSingle ==
    \E property \in MergeDomain(m_group) :
        /\ m_existing' = m_merged
        /\ m_fresh' = property
        /\ m_merged' = single_merged_property(m_merged, property)
        /\ m_site' = "single"
        /\ UNCHANGED <<m_group, runVars, dedupVars, canonVars, sortVars, orderVars, roundVars, raceVars,
                   equivVars, batchVars, refreshVars, legacyVars>>

NextMerge == MergeInDedup \/ MergeInSingle

SpecMerge == InitMerge /\ [][NextMerge]_vars

----
(* deduplicate_properties_by_url applied to a catalog, and to its own result *)

InitDedup ==
    /\ RunIdle
    /\ MergeIdle
    /\ CanonIdle
    /\ SortIdle
    /\ OrderIdle
    /\ RoundIdle
    /\ RaceIdle
    /\ EquivIdle
    /\ BatchIdle
    /\ RefreshIdle
    /\ LegacyIdle
    /\ d_in \in SeqsUpTo(DedupDomain, MaxCatalog)
    /\ d_out = <<>>
    /\ d_out2 = <<>>
    /\ d_phase = "input"

DedupOnce ==
    /\ d_phase = "input"
    /\ d_out' = deduplicate_properties_by_url(d_in)
    /\ d_phase' = "once"
    /\ UNCHANGED <<d_in, d_out2, runVars, mergeVars, canonVars, sortVars, orderVars, roundVars,
                   raceVars, equivVars, batchVars, refreshVars, legacyVars>>

DedupTwice ==
    /\ d_phase = "once"
    /\ d_out2' = deduplicate_properties_by_url(d_out)
    /\ d_phase' = "twice"
    /\ UNCHANGED <<d_in, d_out, runVars, mergeVars, canonVars, sortVars, orderVars, roundVars,
                   raceVars, equivVars, batchVars, refreshVars, legacyVars>>

NextDedup == DedupOnce \/ DedupTwice

SpecDedup == InitDedup /\ [][NextDedup]_vars

----
(* sanitize_url applied to a url, and to its own result *)

\* a url is any sequence of these: two ordinary tokens and the two separators
UrlTokens == {"x", "y", "?", "#"}

InitCanon ==
    /\ RunIdle
    /\ MergeIdle
    /\ DedupIdle
    /\ SortIdle
    /\ OrderIdle
    /\ RoundIdle
    /\ RaceIdle
    /\ EquivIdle
    /\ BatchIdle
    /\ RefreshIdle
    /\ LegacyIdle
    /\ c_url \in SeqsUpTo(UrlTokens, MaxUrlLen)
    /\ c_once = <<>>
    /\ c_twice = <<>>
    /\ c_phase = "input"

SanitizeOnce ==
    /\ c_phase = "input"
    /\ c_once' = sanitize_url(c_url)
    /\ c_phase' = "once"
    /\ UNCHANGED <<c_url, c_twice, runVars, mergeVars, dedupVars, sortVars, orderVars, roundVars,
                   raceVars, equivVars, batchVars, refreshVars, legacyVars>>

SanitizeTwice ==
    /\ c_phase = "once"
    /\ c_twice' = sanitize_url(c_once)
    /\ c_phase' = "twice"
    /\ UNCHANGED <<c_url, c_once, runVars, mergeVars, dedupVars, sortVars, orderVars, roundVars,
                   raceVars, equivVars, batchVars, refreshVars, legacyVars>>

NextCanon == SanitizeOnce \/ SanitizeTwice

SpecCanon == InitCanon /\ [][NextCanon]_vars

----
(* The reconciler applied to one entry and two snapshots, in both orders *)

\* an entry and snapshots of its url; the two snapshots are of the same day
OrderDomain(day) ==
    {[Base(U1) EXCEPT !.listing_type = l, !.price = p,
                      !.first_seen = Some(day), !.last_seen = Some(day)] :
        l \in ListingTypes, p \in {"300000", "350000"}}

InitOrder ==
    /\ RunIdle
    /\ MergeIdle
    /\ DedupIdle
    /\ CanonIdle
    /\ SortIdle
    /\ RoundIdle
    /\ RaceIdle
    /\ EquivIdle
    /\ BatchIdle
    /\ RefreshIdle
    /\ LegacyIdle
    /\ o_existing \in OrderDomain(1)
    /\ \E day \in 1..MaxDay :
        /\ o_first \in OrderDomain(day)
        /\ o_second \in OrderDomain(day)
    /\ o_ab = o_existing
    /\ o_ba = o_existing
    /\ o_site = "none"

\* deduplicate_properties_by_url meets the two snapshots after the entry
OrderInDedup ==
    /\ o_site = "none"
    /\ o_ab' = deduplicate_properties_by_url(<<o_existing, o_first, o_second>>)[1]
    /\ o_ba' = deduplicate_properties_by_url(<<o_existing, o_second, o_first>>)[1]
    /\ o_site' = "dedup"
    /\ UNCHANGED <<o_existing, o_first, o_second, runVars, mergeVars, dedupVars, canonVars,
                   sortVars, roundVars, raceVars, equivVars, batchVars, refreshVars,
                   legacyVars>>

\* scrape_single_url is called for the url twice
OrderInSingle ==
    /\ o_site = "none"
    /\ o_ab' = single_merged_property(single_merged_property(o_existing, o_first), o_second)
    /\ o_ba' = single_merged_property(single_merged_property(o_existing, o_second), o_first)
    /\ o_site' = "single"
    /\ UNCHANGED <<o_existing, o_first, o_second, runVars, mergeVars, dedupVars, canonVars,
                   sortVars, roundVars, raceVars, equivVars, batchVars, refreshVars,
                   legacyVars>>

NextOrder == OrderInDedup \/ OrderInSingle

SpecOrder == InitOrder /\ [][NextOrder]_vars

----
(* utils.rs: the catalog store *)

Range(q) == {q[i] : i \in 1..Len(q)}
Urls(props) == [i \in 1..Len(props) |-> props[i].url]

NoDuplicateUrls(rows) ==
    \A i, j \in 1..Len(rows) : i # j => rows[i].url # rows[j].url

Ok(v) == [ok |-> TRUE, value |-> v]
Err(e) == [ok |-> FALSE, value |-> e]

\* the columns of a Property; a row of the file is a record of its columns, and the
\* token of an enum variant is written like the variant
RequiredColumns == DOMAIN Base(U1)

\* models.rs, Deserialize for ListingType: a token that names no variant is an error
\* (Unavailable is the third variant common_scraper.rs uses)
DeserializeListingType(s) ==
    IF s \in ListingTypes THEN Ok(s) ELSE Err("Invalid listing type")

\* models.rs, Deserialize for PropertyType: a token that names no variant is Unknown
DeserializePropertyType(s) ==
    IF s \in PropertyTypes THEN Ok(s) ELSE Ok("Unknown")

\* csv deserialize of one record into a Property
deserialize(row) ==
    IF DOMAIN row # RequiredColumns THEN Err("missing field")
    ELSE IF ~DeserializeListingType(row.listing_type).ok
        THEN DeserializeListingType(row.listing_type)
    ELSE Ok([row EXCEPT !.property_type = DeserializePropertyType(@).value,
                        !.listing_type = DeserializeListingType(@).value])

\* load_properties_from_csv leaving out the records that do not deserialize
load_properties_from_csvSkipsInvalid(f) ==
    IF ~f.exists THEN Ok(<<>>)
    ELSE LET Valid(row) == deserialize(row).ok
             rows == SelectSeq(f.rows, Valid)
         IN Ok([i \in 1..Len(rows) |->
                   [deserialize(rows[i]).value EXCEPT !.url = sanitize_url(@)]])

\* load_properties_from_csv: no file is an empty catalog; a record that does not
\* deserialize fails the load; every url is sanitized
load_properties_from_csv(f) ==
    IF ~f.exists THEN Ok(<<>>)
    ELSE IF \E i \in 1..Len(f.rows) : ~deserialize(f.rows[i]).ok
        THEN Err("Failed to deserialize property from CSV")
    ELSE Ok([i \in 1..Len(f.rows) |->
                [deserialize(f.rows[i]).value EXCEPT !.url = sanitize_url(@)]])

----
(* models.rs, utils.rs: the records of the file, field by field *)

\* a field of a csv record is a sequence of tokens; the empty field is <<>>
EmptyField == <<>>
StringField(str) == IF str = "" THEN EmptyField ELSE <<str>>
FieldString(field) == IF field = EmptyField THEN "" ELSE field[1]

\* Display for ListingType and PropertyType: the lowercase tokens
ListingTypeToken(v) ==
    CASE v = "Available" -> "available"
      [] v = "Sold" -> "sold"
      [] v = "Unavailable" -> "unavailable"

PropertyTypeToken(v) ==
    CASE v = "Apartment" -> "apartment"
      [] v = "House" -> "house"
      [] v = "Land" -> "land"
      [] v = "Unknown" -> "unknown"

\* Deserialize for ListingType, on the tokens
ParseListingType(str) ==
    IF \E v \in ListingTypes : ListingTypeToken(v) = str
        THEN Ok(CHOOSE v \in ListingTypes : ListingTypeToken(v) = str)
        ELSE Err("Invalid listing type")

\* Deserialize for PropertyType, on the tokens
ParsePropertyType(str) ==
    IF \E v \in PropertyTypes : PropertyTypeToken(v) = str
        THEN Ok(CHOOSE v \in PropertyTypes : PropertyTypeToken(v) = str)
        ELSE Ok("Unknown")

\* format!("{},{}", lat, lng) and its parse
Coordinates == {<<47, 9>>, <<48, 10>>}
CoordinatesToken(c) == IF c = <<47, 9>> THEN "47,9" ELSE "48,10"
ParseCoordinates(field) ==
    IF field = EmptyField THEN None
    ELSE IF \E c \in Coordinates : CoordinatesToken(c) = field[1]
        THEN Some(CHOOSE c \in Coordinates : CoordinatesToken(c) = field[1])
        ELSE None

\* serde of Option<T> in a csv field: None is the empty field, Some(v) is v
OptionField(opt) == IF opt = None THEN EmptyField ELSE StringField(opt[1])
FieldOption(field) == IF field = EmptyField THEN None ELSE Some(field[1])
DateField(opt) == opt
FieldDate(field) == field

\* Serialize for Property
SerializeProperty(p) ==
    [url |-> p.url,
     name |-> StringField(p.name),
     price |-> StringField(p.price),
     location |-> StringField(p.location),
     property_type |-> <<PropertyTypeToken(p.property_type)>>,
     listing_type |-> <<ListingTypeToken(p.listing_type)>>,
     date |-> DateField(p.date),
     coordinates |-> IF p.coordinates = None THEN EmptyField
                     ELSE <<CoordinatesToken(p.coordinates[1])>>,
     address |-> OptionField(p.address),
     size_living |-> OptionField(p.size_living),
     size_ground |-> OptionField(p.size_ground),
     first_seen |-> DateField(p.first_seen),
     last_seen |-> DateField(p.last_seen)]

\* Deserialize for Property
DeserializeProperty(row) ==
    IF ~ParseListingType(FieldString(row.listing_type)).ok
        THEN ParseListingType(FieldString(row.listing_type))
    ELSE Ok(Property(
        row.url,
        FieldString(row.name),
        FieldString(row.price),
        FieldString(row.location),
        ParsePropertyType(FieldString(row.property_type)).value,
        ParseListingType(FieldString(row.listing_type)).value,
        FieldDate(row.date),
        ParseCoordinates(row.coordinates),
        FieldOption(row.address),
        FieldOption(row.size_living),
        FieldOption(row.size_ground),
        FieldDate(row.first_seen),
        FieldDate(row.last_seen)))

\* the serialize loop of save_properties_to_csv
WriteRecords(properties) ==
    [i \in 1..Len(properties) |-> SerializeProperty(properties[i])]

\* the deserialize loop of load_properties_from_csv
ReadRecords(rows) ==
    IF \E i \in 1..Len(rows) : ~DeserializeProperty(rows[i]).ok
        THEN Err("Failed to deserialize property from CSV")
    ELSE Ok([i \in 1..Len(rows) |->
                [DeserializeProperty(rows[i]).value EXCEPT !.url = sanitize_url(@)]])

\* catalogs with canonical urls: one entry of any shape, alone or before another
RoundTripDomain ==
    {<<>>} \cup {<<e>> : e \in UNION {MergeDomain(g) : g \in DOMAIN MergeGroup}}
           \cup {<<e, Base(U2)>> : e \in UNION {MergeDomain(g) : g \in DOMAIN MergeGroup}}

InitRoundTrip ==
    /\ RunIdle
    /\ MergeIdle
    /\ DedupIdle
    /\ CanonIdle
    /\ SortIdle
    /\ OrderIdle
    /\ RaceIdle
    /\ EquivIdle
    /\ BatchIdle
    /\ RefreshIdle
    /\ LegacyIdle
    /\ r_in \in RoundTripDomain
    /\ r_file = <<>>
    /\ r_out = <<>>
    /\ r_phase = "input"

\* save_properties_to_csv writes every entry
RoundTripSave ==
    /\ r_phase = "input"
    /\ r_file' = WriteRecords(r_in)
    /\ r_phase' = "saved"
    /\ UNCHANGED <<r_in, r_out, runVars, mergeVars, dedupVars, canonVars, sortVars, orderVars,
                   raceVars, equivVars, batchVars, refreshVars, legacyVars>>

\* load_properties_from_csv reads the file back
RoundTripLoad ==
    /\ r_phase = "saved"
    /\ LET reading == ReadRecords(r_file) IN
        IF reading.ok
        THEN r_out' = reading.value /\ r_phase' = "loaded"
        ELSE r_out' = <<>> /\ r_phase' = "failed"
    /\ UNCHANGED <<r_in, r_file, runVars, mergeVars, dedupVars, canonVars, sortVars, orderVars,
                   raceVars, equivVars, batchVars, refreshVars, legacyVars>>

NextRoundTrip == RoundTripSave \/ RoundTripLoad

SpecRoundTrip == InitRoundTrip /\ [][NextRoundTrip]_vars

SaveStages == {"save_backup", "save_create", "save_write"}

\* SaveBackup without the copy
SaveBackupSkipsCopy ==
    /\ pc = "save_backup"
    /\ backup' = backup
    /\ pre_save' = file
    /\ pc' = "save_create"
    /\ UNCHANGED <<file, entry, options, today, at_start, all_properties, loaded, urls_to_scrape,
                   idx, newly_scraped, failed_urls, attempted, save_rows, save_pos,
                   save_ret, durable, tui, result, saves, selectVars, fnVars>>

\* save_properties_to_csv, first step: copy(path, backup_path) if the file exists
SaveBackup ==
    /\ pc = "save_backup"
    /\ backup' = IF file.exists THEN file ELSE backup
    /\ pre_save' = file
    /\ pc' = "save_create"
    /\ UNCHANGED <<file, entry, options, today, at_start, all_properties, loaded, urls_to_scrape,
                   idx, newly_scraped, failed_urls, attempted, save_rows, save_pos,
                   save_ret, durable, tui, result, saves, selectVars, fnVars>>

\* SaveCreate opening the file without truncating it
SaveCreateNoTruncate ==
    /\ pc = "save_create"
    /\ file' = [file EXCEPT !.exists = TRUE]
    /\ save_pos' = 0
    /\ pc' = "save_write"
    /\ UNCHANGED <<backup, entry, options, today, at_start, all_properties, loaded,
                   urls_to_scrape, idx, newly_scraped, failed_urls, attempted, save_rows,
                   save_ret, pre_save, durable, tui, result, saves, selectVars, fnVars>>

\* File::create truncates the catalog file
SaveCreate ==
    /\ pc = "save_create"
    /\ file' = [exists |-> TRUE, rows |-> <<>>]
    /\ save_pos' = 0
    /\ pc' = "save_write"
    /\ UNCHANGED <<backup, entry, options, today, at_start, all_properties, loaded, urls_to_scrape,
                   idx, newly_scraped, failed_urls, attempted, save_rows, save_ret,
                   pre_save, durable, tui, result, saves, selectVars, fnVars>>

\* writer.serialize(property) for the next row
SaveWrite ==
    /\ pc = "save_write"
    /\ save_pos < Len(save_rows)
    /\ file' = [file EXCEPT !.rows = Append(@, save_rows[save_pos + 1])]
    /\ save_pos' = save_pos + 1
    /\ UNCHANGED <<backup, pc, entry, options, today, at_start, all_properties, loaded,
                   urls_to_scrape, idx, newly_scraped, failed_urls, attempted, save_rows,
                   save_ret, pre_save, durable, tui, result, saves, selectVars, fnVars>>

\* writer.flush() and Ok(()): the caller continues
SaveFlush ==
    /\ pc = "save_write"
    /\ save_pos = Len(save_rows)
    /\ pc' = save_ret
    /\ saves' = saves + 1
    /\ durable' = {p.url : p \in Range(newly_scraped)}
    /\ UNCHANGED <<file, backup, entry, options, today, at_start, all_properties, loaded,
                   urls_to_scrape, idx, newly_scraped, failed_urls, attempted, save_rows,
                   save_pos, save_ret, pre_save, tui, result, selectVars, fnVars>>

\* SaveFails with the error dropped: the caller continues
SaveFailsIgnored ==
    /\ pc \in SaveStages
    /\ pc' = save_ret
    /\ UNCHANGED <<file, backup, entry, options, today, at_start, all_properties, loaded,
                   urls_to_scrape, idx, newly_scraped, failed_urls, attempted, save_rows,
                   save_pos, save_ret, pre_save, durable, tui, saves, result, selectVars, fnVars>>

\* copy, File::create, serialize or flush returns Err: the `?` ends the run
SaveFails ==
    /\ pc \in SaveStages
    /\ pc' = "done"
    /\ result' = <<"err", "save">>
    /\ UNCHANGED <<file, backup, entry, options, today, at_start, all_properties, loaded,
                   urls_to_scrape, idx, newly_scraped, failed_urls, attempted, save_rows,
                   save_pos, save_ret, pre_save, durable, tui, saves, selectVars, fnVars>>

----
(* The listing source: scrapers.rs, laendleimmo_scraper.rs *)

\* str::contains for a one-token marker
contains(url, marker) == \E i \in 1..Len(url) : url[i] = marker

\* urls a listing page can show: links of this origin, and a link to another origin
DiscoverUrls == {U1, U2, U3, V1}

Reasons == {"HTTP 500"}

\* scrape_property(url): Ok(property) carries the requested url; a fresh snapshot
\* is dated today
Snapshots(url, now) ==
    {[Base(url) EXCEPT !.listing_type = l, !.first_seen = Some(now), !.last_seen = Some(now)] :
        l \in {"Available", "Unavailable"}}

\* check_url accepting every url
check_urlAny(base_url, url) == TRUE

\* check_url: scrape_property is Err for a url without the scraper's base url
check_url(base_url, url) == contains(url, base_url)

----
(* common_scraper.rs: run_scraper_with_options *)

Min(a, b) == IF a < b THEN a ELSE b
Max(a, b) == IF a > b THEN a ELSE b

\* take letting one item more through
takeOneMore(q, max_items) ==
    IF max_items = None THEN q ELSE SubSeq(q, 1, Min(max_items[1] + 1, Len(q)))

\* Iterator::take
take(q, max_items) ==
    IF max_items = None THEN q ELSE SubSeq(q, 1, Min(max_items[1], Len(q)))

\* Option<NaiveDate>::cmp is Less: None sorts before Some
OptLess(a, b) ==
    IF a = None THEN b # None
    ELSE b # None /\ a[1] < b[1]

\* the comparator of relevant_properties.sort_by is Ordering::Less
AgeLess(a, b) ==
    IF a.date # None /\ b.date # None THEN a.date[1] < b.date[1]
    ELSE IF a.date = None /\ b.date # None THEN TRUE
    ELSE IF a.date # None /\ b.date = None THEN FALSE
    ELSE OptLess(a.first_seen, b.first_seen)

\* InsertByAge putting x before the elements it ties with
RECURSIVE InsertByAgeBeforeTies(_, _)
InsertByAgeBeforeTies(sorted, x) ==
    IF sorted = <<>> THEN <<x>>
    ELSE IF ~AgeLess(Head(sorted), x) THEN <<x>> \o sorted
    ELSE <<Head(sorted)>> \o InsertByAgeBeforeTies(Tail(sorted), x)

\* stable insertion: x goes before the first element it is Less than
RECURSIVE InsertByAge(_, _)
InsertByAge(sorted, x) ==
    IF sorted = <<>> THEN <<x>>
    ELSE IF AgeLess(x, Head(sorted)) THEN <<x>> \o sorted
    ELSE <<Head(sorted)>> \o InsertByAge(Tail(sorted), x)

\* slice::sort_by (stable)
RECURSIVE SortByAge(_)
SortByAge(props) ==
    IF props = <<>> THEN <<>>
    ELSE InsertByAge(SortByAge(SubSeq(props, 1, Len(props) - 1)), props[Len(props)])

BulkOptions ==
    {[refresh_days |-> r, new |-> n, max_items |-> m,
      base_url |-> "laendleimmo.at", url |-> <<>>] :
        r \in {None, Some(1)}, n \in BOOLEAN, m \in {None, Some(0), Some(1)}}

\* the catalog entries of this origin
relevant_urls(props, base_url) ==
    {props[i].url : i \in {j \in 1..Len(props) : contains(props[j].url, base_url)}}

\* CheckpointRows leaving the loaded catalog out
CheckpointRowsOnlyScraped(props, scraped) == deduplicate_properties_by_url(scraped)

\* rows handed to save after a successful fetch
CheckpointRows(props, scraped) == deduplicate_properties_by_url(props \o scraped)

\* lines 168-175: load, show the summary
\* lines 168-175: load the catalog (the `?` returns the load error), show the summary
StartBulk ==
    /\ pc = "idle"
    /\ \E opts \in BulkOptions : options' = opts
    /\ entry' = "bulk"
    /\ LET loading == load_properties_from_csv(file) IN
        IF loading.ok
        THEN /\ all_properties' = loading.value
             /\ loaded' = loading.value
             /\ tui' = <<"summary">>
             /\ pc' = "select"
             /\ result' = result
        ELSE /\ pc' = "done"
             /\ result' = <<"err", "load">>
             /\ UNCHANGED <<all_properties, loaded, tui>>
    /\ UNCHANGED <<file, backup, today, at_start, urls_to_scrape, idx, newly_scraped, failed_urls,
                   attempted, save_rows, save_pos, save_ret, pre_save, durable,
                   saves, selectVars, fnVars>>

\* relevant_properties holds references into all_properties: every entry is
\* carried with its index
Tagged(props) == [i \in 1..Len(props) |-> props[i] @@ [pos |-> i]]

\* lines 188-224: the entries of this origin that are Available and last seen on
\* or before the cutoff date, sorted
RefreshSelection(props, base_url, days, now) ==
    LET refresh_days == Max(days, 1)
        cutoff_date == now - refresh_days
        Old(x) == /\ contains(x.url, base_url)
                  /\ x.listing_type = "Available"
                  /\ (x.last_seen = None \/ x.last_seen[1] <= cutoff_date)
    IN SortByAge(SelectSeq(Tagged(props), Old))

\* lines 186-234: refresh mode selects and orders the old available entries
SelectRefresh ==
    /\ pc = "select"
    /\ options.refresh_days # None
    /\ LET sorted == RefreshSelection(all_properties, options.base_url,
                                      options.refresh_days[1], today)
       IN /\ relevant_properties' = sorted
          /\ IF sorted = <<>>
             THEN /\ tui' = Append(tui, "listing_status")
                  /\ pc' = "done"
                  /\ result' = <<"ok">>
                  /\ UNCHANGED urls_to_scrape
             ELSE /\ tui' = Append(tui, "listing_status_refresh")
                  /\ urls_to_scrape' = Urls(sorted)
                  /\ pc' = "cap"
                  /\ UNCHANGED result
    /\ idx' = 0
    /\ UNCHANGED <<file, backup, entry, options, today, at_start, all_properties, loaded,
                   newly_scraped, failed_urls, attempted, save_rows, save_pos, save_ret,
                   pre_save, durable, saves, found_urls, fnVars>>

\* Discovered scheduling every discovered url, known or not
DiscoveredKeepsKnown(found) ==
    LET existing_urls == relevant_urls(all_properties, options.base_url)
        Reobserved(p) == p.url \in Range(found) /\ p.url \in existing_urls
        updated_count == Cardinality({i \in 1..Len(all_properties) :
                                         Reobserved(all_properties[i])})
        refreshed == [i \in 1..Len(all_properties) |->
                        IF Reobserved(all_properties[i])
                        THEN [all_properties[i] EXCEPT !.last_seen = Some(today)]
                        ELSE all_properties[i]]
    IN IF found = <<>>
       THEN /\ found_urls' = found
            /\ tui' = Append(tui, "listing_status")
            /\ pc' = "done"
            /\ result' = <<"ok">>
            /\ UNCHANGED <<all_properties, urls_to_scrape, save_rows, save_ret>>
       ELSE /\ found_urls' = found
            /\ all_properties' = refreshed
            /\ urls_to_scrape' = found
            /\ IF updated_count > 0
               THEN /\ save_rows' = deduplicate_properties_by_url(refreshed)
                    /\ save_ret' = "filter"
                    /\ pc' = "save_backup"
               ELSE /\ pc' = "filter"
                    /\ UNCHANGED <<save_rows, save_ret>>
            /\ UNCHANGED <<tui, result>>

\* lines 238-262 and 286-310: the listing pages were read; refresh last_seen of the
\* known urls that were seen again and save if any was
Discovered(found) ==
    LET existing_urls == relevant_urls(all_properties, options.base_url)
        Reobserved(p) == p.url \in Range(found) /\ p.url \in existing_urls
        updated_count == Cardinality({i \in 1..Len(all_properties) :
                                         Reobserved(all_properties[i])})
        refreshed == [i \in 1..Len(all_properties) |->
                        IF Reobserved(all_properties[i])
                        THEN [all_properties[i] EXCEPT !.last_seen = Some(today)]
                        ELSE all_properties[i]]
        Unknown(u) == u \notin existing_urls
    IN IF found = <<>>
       THEN /\ found_urls' = found
            /\ tui' = Append(tui, "listing_status")
            /\ pc' = "done"
            /\ result' = <<"ok">>
            /\ UNCHANGED <<all_properties, urls_to_scrape, save_rows, save_ret>>
       ELSE /\ found_urls' = found
            /\ all_properties' = refreshed
            /\ urls_to_scrape' = SelectSeq(found, Unknown)
            /\ IF updated_count > 0
               THEN /\ save_rows' = deduplicate_properties_by_url(refreshed)
                    /\ save_ret' = "filter"
                    /\ pc' = "save_backup"
               ELSE /\ pc' = "filter"
                    /\ UNCHANGED <<save_rows, save_ret>>
            /\ UNCHANGED <<tui, result>>

\* New mode: scraper.scrape_new_urls
DiscoverNew ==
    /\ pc = "select"
    /\ options.refresh_days = None
    /\ options.new
    /\ \E found \in SeqsUpTo(DiscoverUrls, MaxFound) : Discovered(found)
    /\ UNCHANGED <<file, backup, entry, options, today, at_start, loaded, idx, newly_scraped,
                   failed_urls, attempted, save_pos, pre_save, durable, saves,
                   relevant_properties, fnVars>>

\* Legacy mode: scraper.scrape_listings(max_pages)
DiscoverLegacy ==
    /\ pc = "select"
    /\ options.refresh_days = None
    /\ ~options.new
    /\ \E found \in SeqsUpTo(DiscoverUrls, MaxFound) : Discovered(found)
    /\ UNCHANGED <<file, backup, entry, options, today, at_start, loaded, idx, newly_scraped,
                   failed_urls, attempted, save_pos, pre_save, durable, saves,
                   relevant_properties, fnVars>>

\* scrape_new_urls / scrape_listings returns Err: the `?` ends the run
DiscoverFails ==
    /\ pc = "select"
    /\ options.refresh_days = None
    /\ pc' = "done"
    /\ result' = <<"err", "listing">>
    /\ UNCHANGED <<file, backup, entry, options, today, at_start, all_properties, loaded,
                   urls_to_scrape, idx, newly_scraped, failed_urls, attempted, save_rows,
                   save_pos, save_ret, pre_save, durable, tui, saves, selectVars, fnVars>>

\* Filter returning an error when no discovered url is new
FilterFailsOnNothingNew ==
    /\ pc = "filter"
    /\ tui' = Append(tui, "listing_status")
    /\ IF urls_to_scrape = <<>>
       THEN /\ pc' = "done"
            /\ result' = <<"err", "nothing new">>
            /\ UNCHANGED urls_to_scrape
       ELSE /\ pc' = "cap"
            /\ UNCHANGED <<urls_to_scrape, result>>
    /\ idx' = 0
    /\ UNCHANGED <<file, backup, entry, options, today, at_start, all_properties, loaded,
                   newly_scraped, failed_urls, attempted, save_rows, save_pos, save_ret,
                   pre_save, durable, saves, selectVars, fnVars>>

\* lines 264-282 / 312-330: report the counts, stop if nothing is new
Filter ==
    /\ pc = "filter"
    /\ tui' = Append(tui, "listing_status")
    /\ IF urls_to_scrape = <<>>
       THEN /\ pc' = "done"
            /\ result' = <<"ok">>
            /\ UNCHANGED urls_to_scrape
       ELSE /\ pc' = "cap"
            /\ UNCHANGED <<urls_to_scrape, result>>
    /\ idx' = 0
    /\ UNCHANGED <<file, backup, entry, options, today, at_start, all_properties, loaded,
                   newly_scraped, failed_urls, attempted, save_rows, save_pos, save_ret,
                   pre_save, durable, saves, selectVars, fnVars>>

\* lines 333-349: the max_items limit is applied to the frontier of whichever mode
ApplyMaxItems ==
    /\ pc = "cap"
    /\ urls_to_scrape' = take(urls_to_scrape, options.max_items)
    /\ pc' = "loop"
    /\ UNCHANGED <<file, backup, entry, options, today, at_start, all_properties, loaded, idx,
                   newly_scraped, failed_urls, attempted, save_rows, save_pos, save_ret,
                   pre_save, durable, tui, result, saves, selectVars, fnVars>>

\* lines 355-370: the next url is fetched; the snapshot is pushed and the whole
\* deduplicated catalog goes to save
FetchOk ==
    /\ pc = "loop"
    /\ idx < Len(urls_to_scrape)
    /\ LET url == urls_to_scrape[idx + 1] IN
        /\ check_url(options.base_url, url)
        /\ \E property \in Snapshots(url, today) :
            /\ newly_scraped' = Append(newly_scraped, property)
            /\ save_rows' = CheckpointRows(all_properties, newly_scraped')
        /\ attempted' = Append(attempted, [url |-> url, ok |-> TRUE])
    /\ idx' = idx + 1
    /\ save_ret' = "loop"
    /\ pc' = "save_backup"
    /\ UNCHANGED <<file, backup, entry, options, today, at_start, all_properties, loaded,
                   urls_to_scrape, failed_urls, save_pos, pre_save, durable, tui, result,
                   saves, selectVars, fnVars>>

\* FetchErr propagating the error with `?`
FetchErrAborts ==
    /\ pc = "loop"
    /\ idx < Len(urls_to_scrape)
    /\ LET url == urls_to_scrape[idx + 1] IN
        /\ \E e \in Reasons : result' = <<"err", "fetch", url, e>>
        /\ attempted' = Append(attempted, [url |-> url, ok |-> FALSE])
    /\ pc' = "done"
    /\ UNCHANGED <<file, backup, entry, options, today, at_start, all_properties, loaded,
                   urls_to_scrape, idx, newly_scraped, failed_urls, save_rows, save_pos,
                   save_ret, pre_save, durable, tui, saves, selectVars, fnVars>>

\* lines 371-374: the fetch failed; the url and the reason are recorded
FetchErr ==
    /\ pc = "loop"
    /\ idx < Len(urls_to_scrape)
    /\ LET url == urls_to_scrape[idx + 1] IN
        /\ \E e \in Reasons : failed_urls' = Append(failed_urls, <<url, e>>)
        /\ attempted' = Append(attempted, [url |-> url, ok |-> FALSE])
    /\ idx' = idx + 1
    /\ UNCHANGED <<file, backup, pc, entry, options, today, at_start, all_properties, loaded,
                   urls_to_scrape, newly_scraped, save_rows, save_pos, save_ret, pre_save,
                   durable, tui, result, saves, selectVars, fnVars>>

\* lines 381-396: final summary, failure report, Ok(())
Finalize ==
    /\ pc = "loop"
    /\ idx = Len(urls_to_scrape)
    /\ tui' = tui \o <<"final_summary", "failure_report">>
    /\ result' = <<"ok">>
    /\ pc' = "done"
    /\ UNCHANGED <<file, backup, entry, options, today, at_start, all_properties, loaded,
                   urls_to_scrape, idx, newly_scraped, failed_urls, attempted, save_rows,
                   save_pos, save_ret, pre_save, durable, saves, selectVars, fnVars>>

----
(* The refresh-mode selection applied to a catalog *)

\* entries that refresh mode selects whatever the day: Available, never seen;
\* they differ in url, listing date and first_seen
SortDomain ==
    {[Base(u) EXCEPT !.date = d, !.first_seen = f] :
        u \in {U1, U2, U3}, d \in OptDates, f \in OptDates}

InitSort ==
    /\ RunIdle
    /\ MergeIdle
    /\ DedupIdle
    /\ CanonIdle
    /\ OrderIdle
    /\ RoundIdle
    /\ RaceIdle
    /\ EquivIdle
    /\ BatchIdle
    /\ RefreshIdle
    /\ LegacyIdle
    /\ s_in \in {q \in SeqsUpTo(SortDomain, MaxCatalog) : NoDuplicateUrls(q)}
    /\ s_out = <<>>
    /\ s_phase = "input"

\* lines 188-229: filter, sort_by, map to the urls
SortFrontier ==
    /\ s_phase = "input"
    /\ s_out' = Urls(RefreshSelection(s_in, "laendleimmo.at", 1, MaxDay))
    /\ s_phase' = "sorted"
    /\ UNCHANGED <<s_in, runVars, mergeVars, dedupVars, canonVars, orderVars, roundVars, raceVars,
                   equivVars, batchVars, refreshVars, legacyVars>>

NextSort == SortFrontier

SpecSort == InitSort /\ [][NextSort]_vars

----
(* common_scraper.rs: scrape_single_url *)

SingleUrls == {U1, U1q, U2}

\* SingleUpdate that always pushes
SingleUpdateAlwaysPushes(props, url, property) ==
    Append(props, property)

\* lines 128-133: update in place, or push a new url at the end
SingleUpdate(props, url, property) ==
    LET existing_position == position(props, url) IN
        IF existing_position # 0
        THEN [props EXCEPT ![existing_position] =
                 single_merged_property(props[existing_position], property)]
        ELSE Append(props, property)

\* lines 55-73: load, look the url up, announce the fetch
StartSingle ==
    /\ pc = "idle"
    /\ \E url \in SingleUrls : options' = [NoOptions EXCEPT !.url = url]
    /\ entry' = "single"
    /\ LET loading == load_properties_from_csv(file) IN
        IF loading.ok
        THEN /\ all_properties' = loading.value
             /\ loaded' = loading.value
             /\ tui' = <<"summary", "add_property", "start_scraping">>
             /\ pc' = "single_fetch"
             /\ result' = result
        ELSE /\ pc' = "done"
             /\ result' = <<"err", "load">>
             /\ UNCHANGED <<all_properties, loaded, tui>>
    /\ UNCHANGED <<file, backup, today, at_start, urls_to_scrape, idx, newly_scraped, failed_urls,
                   attempted, save_rows, save_pos, save_ret, pre_save, durable,
                   saves, selectVars, fnVars>>

\* lines 78-139: the fetch succeeded; merge, write in place or push, save
SingleFetchOk ==
    /\ pc = "single_fetch"
    /\ check_url(options.base_url, options.url)
    /\ \E property \in Snapshots(options.url, today) :
        all_properties' = SingleUpdate(all_properties, options.url, property)
    /\ attempted' = Append(attempted, [url |-> options.url, ok |-> TRUE])
    /\ tui' = Append(tui, "complete_property")
    /\ save_rows' = all_properties'
    /\ save_ret' = "single_summary"
    /\ pc' = "save_backup"
    /\ UNCHANGED <<file, backup, entry, options, today, at_start, loaded, urls_to_scrape, idx,
                   newly_scraped, failed_urls, save_pos, pre_save, durable, result, saves,
                   selectVars, fnVars>>

\* lines 141-142: the final summary after the save
SingleSummary ==
    /\ pc = "single_summary"
    /\ tui' = Append(tui, "final_summary")
    /\ pc' = "single_report"
    /\ UNCHANGED <<file, backup, entry, options, today, at_start, all_properties, loaded,
                   urls_to_scrape, idx, newly_scraped, failed_urls, attempted, save_rows,
                   save_pos, save_ret, pre_save, durable, result, saves, selectVars, fnVars>>

\* SingleFetchErr returning the error at once
SingleFetchErrEarlyReturn ==
    /\ pc = "single_fetch"
    /\ \E e \in Reasons :
        /\ failed_urls' = Append(failed_urls, <<options.url, e>>)
        /\ result' = <<"err", "Failed to scrape URL", options.url, e>>
    /\ attempted' = Append(attempted, [url |-> options.url, ok |-> FALSE])
    /\ tui' = Append(tui, "fail_property")
    /\ pc' = "done"
    /\ UNCHANGED <<file, backup, entry, options, today, at_start, all_properties, loaded,
                   urls_to_scrape, idx, newly_scraped, save_rows, save_pos, save_ret,
                   pre_save, durable, saves, selectVars, fnVars>>

\* lines 144-150: the fetch failed; record it and show the final summary
SingleFetchErr ==
    /\ pc = "single_fetch"
    /\ \E e \in Reasons : failed_urls' = Append(failed_urls, <<options.url, e>>)
    /\ attempted' = Append(attempted, [url |-> options.url, ok |-> FALSE])
    /\ tui' = tui \o <<"fail_property", "final_summary">>
    /\ pc' = "single_report"
    /\ UNCHANGED <<file, backup, entry, options, today, at_start, all_properties, loaded,
                   urls_to_scrape, idx, newly_scraped, save_rows, save_pos, save_ret,
                   pre_save, durable, result, saves, selectVars, fnVars>>

\* lines 153-161: the failure report, then Err naming the url or Ok(())
SingleReport ==
    /\ pc = "single_report"
    /\ tui' = Append(tui, "failure_report")
    /\ result' = IF failed_urls # <<>>
                 THEN <<"err", "Failed to scrape URL", options.url, failed_urls[1][2]>>
                 ELSE <<"ok">>
    /\ pc' = "done"
    /\ UNCHANGED <<file, backup, entry, options, today, at_start, all_properties, loaded,
                   urls_to_scrape, idx, newly_scraped, failed_urls, attempted, save_rows,
                   save_pos, save_ret, pre_save, durable, saves, selectVars, fnVars>>

----
(* The process is killed: its memory is gone, the files stay as they are *)

Crash ==
    /\ pc \notin {"idle", "done"}
    /\ pc' = "done"
    /\ result' = <<"killed">>
    /\ all_properties' = <<>>
    /\ loaded' = <<>>
    /\ urls_to_scrape' = <<>>
    /\ idx' = 0
    /\ newly_scraped' = <<>>
    /\ failed_urls' = <<>>
    /\ attempted' = <<>>
    /\ save_rows' = <<>>
    /\ save_pos' = 0
    /\ save_ret' = "idle"
    /\ tui' = <<>>
    /\ found_urls' = <<>>
    /\ relevant_properties' = <<>>
    /\ UNCHANGED <<file, backup, entry, options, today, at_start, pre_save, durable, saves,
                   fnVars>>

----
(* One run of the sequencer on a catalog file *)

\* rows a catalog file can hold when a run starts
FileRows ==
    {[Base(U1) EXCEPT !.last_seen = Some(1)],
     [Base(U1) EXCEPT !.first_seen = Some(1), !.last_seen = Some(1)],
     [Base(U1) EXCEPT !.listing_type = "Unavailable", !.first_seen = Some(1),
                      !.last_seen = Some(1)],
     [Base(U1q) EXCEPT !.first_seen = Some(1), !.last_seen = Some(1)],
     [Base(U2) EXCEPT !.first_seen = Some(1)],
     [Base(V1) EXCEPT !.first_seen = Some(1), !.last_seen = Some(1)]}

\* a run begins on a catalog file and a backup
InitRun(files, backups) ==
    /\ file \in files
    /\ backup \in backups
    /\ today \in 1..MaxDay
    /\ pc = "idle"
    /\ entry = "none"
    /\ options = NoOptions
    /\ all_properties = <<>>
    /\ loaded = <<>>
    /\ urls_to_scrape = <<>>
    /\ idx = 0
    /\ newly_scraped = <<>>
    /\ failed_urls = <<>>
    /\ attempted = <<>>
    /\ save_rows = <<>>
    /\ save_pos = 0
    /\ save_ret = "idle"
    /\ pre_save = NoFile
    /\ durable = {}
    /\ tui = <<>>
    /\ result = <<"running">>
    /\ saves = 0
    /\ at_start = [file |-> file, backup |-> backup]
    /\ found_urls = <<>>
    /\ relevant_properties = <<>>
    /\ MergeIdle
    /\ DedupIdle
    /\ CanonIdle
    /\ SortIdle
    /\ OrderIdle
    /\ RoundIdle
    /\ RaceIdle
    /\ EquivIdle
    /\ BatchIdle
    /\ RefreshIdle
    /\ LegacyIdle

CatalogFiles(rows) ==
    {NoFile} \cup {[exists |-> TRUE, rows |-> r] :
                      r \in {q \in SeqsUpTo(rows, MaxRows) : NoDuplicateUrls(q)}}

Init == InitRun(CatalogFiles(FileRows), {NoFile})

\* rows of a catalog file as another program or an editor may have left them: a
\* record without the required columns, unrecognized enum tokens
ShortRow == [url |-> U3]
RawRows ==
    {[Base(U1) EXCEPT !.first_seen = Some(1), !.last_seen = Some(1)],
     [Base(U2) EXCEPT !.property_type = "castle", !.first_seen = Some(1)],
     [Base(U2) EXCEPT !.listing_type = "rented", !.first_seen = Some(1)],
     ShortRow}

InitLoad ==
    InitRun(CatalogFiles(RawRows),
            {NoFile, [exists |-> TRUE, rows |-> <<Base(U3)>>]})

Next ==
    \/ StartBulk
    \/ SelectRefresh
    \/ DiscoverNew
    \/ DiscoverLegacy
    \/ DiscoverFails
    \/ Filter
    \/ ApplyMaxItems
    \/ FetchOk
    \/ FetchErr
    \/ Finalize
    \/ StartSingle
    \/ SingleFetchOk
    \/ SingleSummary
    \/ SingleFetchErr
    \/ SingleReport
    \/ SaveBackup
    \/ SaveCreate
    \/ SaveWrite
    \/ SaveFlush
    \/ SaveFails
    \/ Crash

Spec == Init /\ [][Next]_vars

\* the sequencer is a sequential program: whatever step is enabled is eventually taken
FairSpec == Spec /\ WF_vars(Next)

\* the runs on catalog files that hold rows the program did not write
SpecLoad == InitLoad /\ [][Next]_vars

----
(* Two runs on one catalog file: one run loads, fetches and saves, the other loads *)

InitRace ==
    /\ RunIdle
    /\ MergeIdle
    /\ DedupIdle
    /\ CanonIdle
    /\ SortIdle
    /\ OrderIdle
    /\ RoundIdle
    /\ EquivIdle
    /\ BatchIdle
    /\ RefreshIdle
    /\ LegacyIdle
    /\ q_file \in CatalogFiles(FileRows)
    /\ q_backup = NoFile
    /\ q_pc = "idle"
    /\ q_loaded = <<>>
    /\ q_rows = <<>>
    /\ q_pos = 0
    /\ q_other = [pc |-> "idle", loaded |-> <<>>, torn |-> FALSE]

\* common_scraper.rs:174: the saving run loads the catalog
RaceStart ==
    /\ q_pc = "idle"
    /\ LET loading == load_properties_from_csv(q_file) IN
        IF loading.ok
        THEN q_loaded' = loading.value /\ q_pc' = "fetch"
        ELSE q_loaded' = <<>> /\ q_pc' = "done"
    /\ UNCHANGED <<q_file, q_backup, q_rows, q_pos, q_other, runVars, mergeVars, dedupVars,
                   canonVars, sortVars, orderVars, roundVars, equivVars, batchVars,
                   refreshVars, legacyVars>>

\* common_scraper.rs:358-369: a fetch succeeded, the checkpoint is about to be saved
RaceFetch ==
    /\ q_pc = "fetch"
    /\ \E url \in {u \in DiscoverUrls : check_url("laendleimmo.at", u)}, now \in 1..MaxDay :
        \E property \in Snapshots(url, now) :
            q_rows' = deduplicate_properties_by_url(q_loaded \o <<property>>)
    /\ q_pc' = "save_backup"
    /\ UNCHANGED <<q_file, q_backup, q_loaded, q_pos, q_other, runVars, mergeVars, dedupVars,
                   canonVars, sortVars, orderVars, roundVars, equivVars, batchVars,
                   refreshVars, legacyVars>>

\* utils.rs:240-247: copy to the backup if the file exists
RaceBackup ==
    /\ q_pc = "save_backup"
    /\ q_backup' = IF q_file.exists THEN q_file ELSE q_backup
    /\ q_pc' = "save_create"
    /\ UNCHANGED <<q_file, q_loaded, q_rows, q_pos, q_other, runVars, mergeVars, dedupVars,
                   canonVars, sortVars, orderVars, roundVars, equivVars, batchVars,
                   refreshVars, legacyVars>>

\* RaceCreate opening the file without truncating it
RaceCreateNoTruncate ==
    /\ q_pc = "save_create"
    /\ q_file' = [q_file EXCEPT !.exists = TRUE]
    /\ q_pos' = 0
    /\ q_pc' = "save_write"
    /\ UNCHANGED <<q_backup, q_loaded, q_rows, q_other, runVars, mergeVars, dedupVars,
                   canonVars, sortVars, orderVars, roundVars, equivVars, batchVars,
                   refreshVars, legacyVars>>

\* utils.rs:249-250: File::create truncates the catalog file
RaceCreate ==
    /\ q_pc = "save_create"
    /\ q_file' = [exists |-> TRUE, rows |-> <<>>]
    /\ q_pos' = 0
    /\ q_pc' = "save_write"
    /\ UNCHANGED <<q_backup, q_loaded, q_rows, q_other, runVars, mergeVars, dedupVars,
                   canonVars, sortVars, orderVars, roundVars, equivVars, batchVars,
                   refreshVars, legacyVars>>

\* utils.rs:254-258: the next row is written
RaceWrite ==
    /\ q_pc = "save_write"
    /\ q_pos < Len(q_rows)
    /\ q_file' = [q_file EXCEPT !.rows = Append(@, q_rows[q_pos + 1])]
    /\ q_pos' = q_pos + 1
    /\ UNCHANGED <<q_backup, q_pc, q_loaded, q_rows, q_other, runVars, mergeVars, dedupVars,
                   canonVars, sortVars, orderVars, roundVars, equivVars, batchVars,
                   refreshVars, legacyVars>>

\* utils.rs:260-266: flush, the save is complete
RaceFlush ==
    /\ q_pc = "save_write"
    /\ q_pos = Len(q_rows)
    /\ q_pc' = "done"
    /\ UNCHANGED <<q_file, q_backup, q_loaded, q_rows, q_pos, q_other, runVars, mergeVars,
                   dedupVars, canonVars, sortVars, orderVars, roundVars, equivVars, batchVars,
                   refreshVars, legacyVars>>

\* common_scraper.rs:174 in the other run: it loads whatever the file holds now
RaceOtherLoad ==
    /\ q_other.pc = "idle"
    /\ LET loading == load_properties_from_csv(q_file) IN
        q_other' = [pc |-> IF loading.ok THEN "loaded" ELSE "failed",
                    loaded |-> IF loading.ok THEN loading.value ELSE <<>>,
                    torn |-> q_pc = "save_write" /\ q_pos < Len(q_rows)]
    /\ UNCHANGED <<q_file, q_backup, q_pc, q_loaded, q_rows, q_pos, runVars, mergeVars,
                   dedupVars, canonVars, sortVars, orderVars, roundVars, equivVars, batchVars,
                   refreshVars, legacyVars>>

NextRace ==
    \/ RaceStart
    \/ RaceFetch
    \/ RaceBackup
    \/ RaceCreate
    \/ RaceWrite
    \/ RaceFlush
    \/ RaceOtherLoad

SpecRace == InitRace /\ [][NextRace]_vars

----
(* scrape_single_url next to deduplicate_properties_by_url on the same input *)

\* snapshots: the rows of DedupDomain and those of a url no catalog holds
EquivSnapshots ==
    DedupDomain \cup {[Base(U3) EXCEPT !.listing_type = l] : l \in {"Available", "Unavailable"}}

InitEquiv ==
    /\ RunIdle
    /\ MergeIdle
    /\ DedupIdle
    /\ CanonIdle
    /\ SortIdle
    /\ OrderIdle
    /\ RoundIdle
    /\ RaceIdle
    /\ BatchIdle
    /\ RefreshIdle
    /\ LegacyIdle
    /\ e_catalog \in {q \in SeqsUpTo(DedupDomain, MaxCatalog) : NoDuplicateUrls(q)}
    /\ e_property \in EquivSnapshots
    /\ e_single = <<>>
    /\ e_dedup = <<>>
    /\ e_phase = "input"

\* lines 65-133 for the url of the snapshot, and lines 401-461 on the same rows
UpdateBothWays ==
    /\ e_phase = "input"
    /\ e_single' = SingleUpdate(e_catalog, e_property.url, e_property)
    /\ e_dedup' = deduplicate_properties_by_url(Append(e_catalog, e_property))
    /\ e_phase' = "updated"
    /\ UNCHANGED <<e_catalog, e_property, runVars, mergeVars, dedupVars, canonVars, sortVars,
                   orderVars, roundVars, raceVars, batchVars, refreshVars, legacyVars>>

NextEquiv == UpdateBothWays

SpecEquiv == InitEquiv /\ [][NextEquiv]_vars

----
(* deduplicate_properties_by_url in one pass, in two passes, and across a reload *)

BatchDomain ==
    {[Base(u) EXCEPT !.listing_type = l, !.address = a] :
        u \in {U1, U2}, l \in {"Available", "Unavailable"},
        a \in {None, Some(""), Some("Main St 1")}}

\* save_properties_to_csv followed by load_properties_from_csv
Reloaded(properties) == ReadRecords(WriteRecords(properties))

InitBatch ==
    /\ RunIdle
    /\ MergeIdle
    /\ DedupIdle
    /\ CanonIdle
    /\ SortIdle
    /\ OrderIdle
    /\ RoundIdle
    /\ RaceIdle
    /\ EquivIdle
    /\ RefreshIdle
    /\ LegacyIdle
    /\ b_x \in SeqsUpTo(BatchDomain, MaxRows)
    /\ b_y \in SeqsUpTo(BatchDomain, MaxFound)
    /\ b_k \in 0..Len(b_y)
    /\ b_batch = <<>>
    /\ b_incremental = <<>>
    /\ b_reloaded = <<>>
    /\ b_phase = "input"

\* lines 363-369 and 386-390: the checkpoint of the snapshots so far, and the catalog
\* recomputed from what was loaded
ReconcileBothWays ==
    /\ b_phase = "input"
    /\ b_batch' = deduplicate_properties_by_url(b_x \o b_y)
    /\ b_incremental' =
           deduplicate_properties_by_url(deduplicate_properties_by_url(b_x) \o b_y)
    /\ LET checkpoint == deduplicate_properties_by_url(b_x \o SubSeq(b_y, 1, b_k))
           later == SubSeq(b_y, b_k + 1, Len(b_y))
       IN b_reloaded' = IF Reloaded(checkpoint).ok
                        THEN deduplicate_properties_by_url(Reloaded(checkpoint).value \o later)
                        ELSE <<>>
    /\ b_phase' = "reconciled"
    /\ UNCHANGED <<b_x, b_y, b_k, runVars, mergeVars, dedupVars, canonVars, sortVars,
                   orderVars, roundVars, raceVars, equivVars, refreshVars, legacyVars>>

NextBatch == ReconcileBothWays

SpecBatch == InitBatch /\ [][NextBatch]_vars

----
(* common_scraper.rs: merge_properties_with_refresh *)

merge_properties_with_refresh(existing_properties, scraping_result) ==
    LET NotScraped(p) == ~(p.url \in Range(scraping_result.scraped_urls))
        kept == IF scraping_result.is_refresh THEN SelectSeq(existing_properties, NotScraped)
                ELSE existing_properties
    IN deduplicate_properties_by_url(kept \o scraping_result.scraped_properties)

RefreshDomain ==
    {[Base(u) EXCEPT !.listing_type = l, !.price = p] :
        u \in {U1, U2}, l \in {"Available", "Unavailable"}, p \in {"300000", "350000"}}

InitRefresh ==
    /\ RunIdle
    /\ MergeIdle
    /\ DedupIdle
    /\ CanonIdle
    /\ SortIdle
    /\ OrderIdle
    /\ RoundIdle
    /\ RaceIdle
    /\ EquivIdle
    /\ BatchIdle
    /\ LegacyIdle
    /\ w_existing \in {q \in SeqsUpTo(RefreshDomain, MaxRows) : NoDuplicateUrls(q)}
    /\ w_result \in [scraped_properties : SeqsUpTo(RefreshDomain, MaxFound),
                     scraped_urls : SeqsUpTo({U1, U2}, MaxFound),
                     is_refresh : BOOLEAN]
    /\ w_out = <<>>
    /\ w_phase = "input"

MergeWithRefresh ==
    /\ w_phase = "input"
    /\ w_out' = merge_properties_with_refresh(w_existing, w_result)
    /\ w_phase' = "merged"
    /\ UNCHANGED <<w_existing, w_result, runVars, mergeVars, dedupVars, canonVars, sortVars,
                   orderVars, roundVars, raceVars, equivVars, batchVars, legacyVars>>

NextRefresh == MergeWithRefresh

SpecRefresh == InitRefresh /\ [][NextRefresh]_vars

----
(* main.rs, bin/vol_scraper.rs, bin/laendleimmo_scraper.rs, scraper.rs, laendleimmo_scraper.rs:
   the per-platform sequencers: paged enumeration, then the new urls one by one *)

V2 == <<"vol.at", "2">>

\* the property urls a listing page of the platform can link to
LegacyUrls(platform) == IF platform = "vol" THEN {V1, V2} ELSE {U1, U2}

\* what a request of one listing page returns: Err, or Ok of the urls found on the page
\* (laendleimmo_scraper.rs 81-84: no url twice on one page)
PageResponses(platform) ==
    {Err("fetch")} \cup
    {Ok(q) : q \in {r \in SeqsUpTo(LegacyUrls(platform), MaxFound) :
                        \A i, j \in 1..Len(r) : r[i] = r[j] => i = j}}

\* main.rs 120-123 and 144-147: no url found ends the platform's run before the item loop
AfterPages(urls) == IF urls = <<>> THEN "done" ELSE "items"

InitLegacy ==
    /\ RunIdle
    /\ MergeIdle
    /\ DedupIdle
    /\ CanonIdle
    /\ SortIdle
    /\ OrderIdle
    /\ RoundIdle
    /\ RaceIdle
    /\ EquivIdle
    /\ BatchIdle
    /\ RefreshIdle
    /\ g_platform \in {"vol", "laendleimmo"}
    /\ g_max_pages \in 0..MaxPages
    /\ g_max_items \in {None} \cup {Some(n) : n \in 0..MaxFound}
    /\ g_existing \in SUBSET {V1, U1}
    /\ g_page = 1
    /\ g_requested = <<>>
    /\ g_urls = <<>>
    /\ g_i = 1
    /\ g_new = <<>>
    /\ g_fetched = <<>>
    /\ g_phase = "pages"

\* scraper.rs 10-46 (and the older src/scraper.rs 9-38): scrape_all_index_pages, one
\* request per step. The first page is requested whatever max_pages is, its failure is the
\* failure of the run, and its result is not looked at; pages 2..=max_pages stop at the
\* first empty or failed one.
IndexPage ==
    /\ g_phase = "pages"
    /\ g_platform = "vol"
    /\ \E response \in PageResponses("vol") :
          LET outcome == IF ~response.ok THEN "failed"
                         ELSE IF response.value = <<>> THEN "empty" ELSE "urls"
              urls == IF outcome = "urls" THEN g_urls \o response.value ELSE g_urls
              last == \/ g_page + 1 > g_max_pages
                      \/ g_page > 1 /\ outcome # "urls"
          IN /\ g_requested' = Append(g_requested, [page |-> g_page, outcome |-> outcome])
             /\ g_urls' = urls
             /\ g_page' = g_page + 1
             /\ g_phase' = IF g_page = 1 /\ outcome = "failed" THEN "err"
                           ELSE IF last THEN AfterPages(urls) ELSE "pages"
    /\ UNCHANGED <<g_platform, g_max_pages, g_max_items, g_existing, g_i, g_new, g_fetched,
                   runVars, mergeVars, dedupVars, canonVars, sortVars, orderVars, roundVars,
                   raceVars, equivVars, batchVars, refreshVars>>

\* laendleimmo_scraper.rs 11-51: scrape_all_listing_pages, one turn of `for page in
\* 1..=max_pages` per step; the step that finds the range exhausted requests nothing
ListingPage ==
    /\ g_phase = "pages"
    /\ g_platform = "laendleimmo"
    /\ IF g_page > g_max_pages
       THEN /\ g_phase' = AfterPages(g_urls)
            /\ UNCHANGED <<g_requested, g_urls, g_page>>
       ELSE \E response \in PageResponses("laendleimmo") :
               LET outcome == IF ~response.ok THEN "failed"
                              ELSE IF response.value = <<>> THEN "empty" ELSE "urls"
                   urls == IF outcome = "urls" THEN g_urls \o response.value ELSE g_urls
               IN /\ g_requested' = Append(g_requested, [page |-> g_page, outcome |-> outcome])
                  /\ g_urls' = urls
                  /\ g_page' = g_page + 1
                  /\ g_phase' = IF outcome # "urls" THEN AfterPages(urls) ELSE "pages"
    /\ UNCHANGED <<g_platform, g_max_pages, g_max_items, g_existing, g_i, g_new, g_fetched,
                   runVars, mergeVars, dedupVars, canonVars, sortVars, orderVars, roundVars,
                   raceVars, equivVars, batchVars, refreshVars>>

\* main.rs 47-52 (and 84-89, bin/vol_scraper.rs 38-43): the check at the head of the item
\* loop counts the properties scraped so far, not the pages fetched
ReachedMaxItems(max_items, new_properties) ==
    max_items # None /\ Len(new_properties) >= max_items[1]

\* main.rs 35-70 and 72-110, bin/vol_scraper.rs 26-61: one turn of `for url in
\* property_urls`; a fetch that fails is reported and the loop goes on
ScrapeNewProperty ==
    /\ g_phase = "items"
    /\ IF g_i > Len(g_urls) \/ ReachedMaxItems(g_max_items, g_new)
       THEN /\ g_phase' = "done"
            /\ UNCHANGED <<g_i, g_new, g_fetched>>
       ELSE /\ g_i' = g_i + 1
            /\ g_phase' = "items"
            /\ IF g_urls[g_i] \notin g_existing
               THEN /\ g_fetched' = Append(g_fetched, g_urls[g_i])
                    /\ \E scraped \in BOOLEAN :
                          g_new' = IF scraped THEN Append(g_new, g_urls[g_i]) ELSE g_new
               ELSE UNCHANGED <<g_new, g_fetched>>
    /\ UNCHANGED <<g_platform, g_max_pages, g_max_items, g_existing, g_page, g_requested,
                   g_urls, runVars, mergeVars, dedupVars, canonVars, sortVars, orderVars,
                   roundVars, raceVars, equivVars, batchVars, refreshVars>>

NextLegacy ==
    \/ IndexPage
    \/ ListingPage
    \/ ScrapeNewProperty

SpecLegacy == InitLegacy /\ [][NextLegacy]_vars

----
(* Properties *)

CanonUrls(rows) == {sanitize_url(rows[i].url) : i \in 1..Len(rows)}

\* C1: every catalog file a run has written completely (bulk run or single-target
\* update, from any catalog file load accepts) holds one entry per url.
C1_OneEntryPerUrl ==
    [][saves' = saves + 1 => NoDuplicateUrls(file'.rows)]_vars

DescriptiveFields ==
    {"name", "price", "location", "property_type", "date", "coordinates",
     "address", "size_living", "size_ground"}

\* a value the extraction emits when it found nothing: empty, absent or a placeholder
IsSentinel(f, v) ==
    CASE f = "name" -> v \in {"", "Unknown Property", "Unavailable Property"}
      [] f = "price" -> v \in {"", "Unknown", "Unavailable"}
      [] f = "location" -> v \in {"", "Unknown"}
      [] f = "property_type" -> v = "Unknown"
      [] f \in {"address", "size_living", "size_ground"} -> v = None \/ v = Some("")
      [] OTHER -> v = None

\* C2: no regression: in every merge (either branch, either merge site) a descriptive
\* field whose existing value is non-sentinel and whose fresh value is a sentinel,
\* empty or absent keeps the existing value.
C2_NoRegression ==
    m_site # "none" =>
        \A f \in DescriptiveFields :
            (~IsSentinel(f, m_existing[f]) /\ IsSentinel(f, m_fresh[f]))
                => m_merged[f] = m_existing[f]

\* C3: monotonic firstSeen: over any sequence of merges on one url, a first_seen
\* that is set stays set and never moves to a later date.
C3_MonotonicFirstSeen ==
    [][m_merged.first_seen # None =>
          /\ m_merged'.first_seen # None
          /\ m_merged'.first_seen[1] <= m_merged.first_seen[1]]_vars

\* a merge met an entry and a snapshot that carry different first_seen dates
C3_Witness ==
    /\ m_site # "none"
    /\ m_existing.first_seen # None
    /\ m_fresh.first_seen # None
    /\ m_fresh.first_seen[1] > m_existing.first_seen[1]
    /\ m_merged.first_seen = m_existing.first_seen

DatesOrdered(p) ==
    (p.first_seen # None /\ p.last_seen # None) => p.first_seen[1] <= p.last_seen[1]

\* C4: every catalog entry the sequencer produces from entries that satisfy
\* firstSeen <= lastSeen (or have a date unset) satisfies firstSeen <= lastSeen
\* whenever both are set.
C4_FirstSeenNotAfterLastSeen ==
    /\ \A i \in 1..Len(file.rows) : DatesOrdered(file.rows[i])
    /\ \A i \in 1..Len(all_properties) : DatesOrdered(all_properties[i])

\* C5: no entry is ever deleted: every url (as canonicalized) that the catalog file
\* held when a save began is in the catalog file when that save has completed.
C5_NoEntryDeleted ==
    [][saves' = saves + 1 => CanonUrls(pre_save.rows) \subseteq CanonUrls(file'.rows)]_vars

\* a checkpoint of a bulk run completed on a catalog file that held rows, after a
\* failed fetch and with a new url added
C5_Witness ==
    /\ entry = "bulk"
    /\ pc = "loop"
    /\ saves > 0
    /\ pre_save.rows # <<>>
    /\ failed_urls # <<>>
    /\ CanonUrls(pre_save.rows) # CanonUrls(file.rows)

\* C6 as stated: between a successful fetch and the next one the catalog file equals
\* deduplicate(loaded catalog followed by the snapshots fetched so far).
C6_CheckpointEqualsLoaded ==
    (entry = "bulk" /\ pc = "loop" /\ newly_scraped # <<>>)
        => file.rows = deduplicate_properties_by_url(loaded \o newly_scraped)

\* the in-memory catalog is the loaded one but for last_seen refreshed to today
RefreshedOnly(props, before, now) ==
    /\ Len(props) = Len(before)
    /\ \A i \in 1..Len(props) :
        /\ [props[i] EXCEPT !.last_seen = before[i].last_seen] = before[i]
        /\ props[i].last_seen \in {before[i].last_seen, Some(now)}

\* C6 amended: between a successful fetch and the next one the catalog file equals
\* deduplicate(in-memory catalog followed by the snapshots fetched so far), the
\* in-memory catalog being the loaded one with last_seen of the re-observed entries
\* set to today.
C6_CheckpointEqualsMemory ==
    (entry = "bulk" /\ pc = "loop" /\ newly_scraped # <<>>)
        => /\ file.exists
           /\ file.rows = deduplicate_properties_by_url(all_properties \o newly_scraped)
           /\ RefreshedOnly(all_properties, loaded, today)

\* the second checkpoint of a run whose discovery refreshed a known entry
C6_Witness ==
    /\ entry = "bulk"
    /\ pc = "loop"
    /\ Len(newly_scraped) >= 1
    /\ all_properties # loaded
    /\ file.rows = deduplicate_properties_by_url(all_properties \o newly_scraped)

\* C7: crash safety: when a run is killed, every snapshot whose checkpoint had
\* completed is still in the catalog file.
C7_CrashKeepsDurable ==
    result = <<"killed">> => durable \subseteq {file.rows[i].url : i \in 1..Len(file.rows)}

Failed(a) == ~a.ok
Succeeded(a) == a.ok

C8_Safety ==
    /\ (entry = "bulk" /\ pc \in {"loop", "done"} \cup SaveStages /\ result # <<"killed">>
            /\ (pc = "done" => attempted # <<>>)) =>
        /\ Urls(attempted) = SubSeq(urls_to_scrape, 1, idx)
        /\ [i \in 1..Len(failed_urls) |-> failed_urls[i][1]]
              = Urls(SelectSeq(attempted, Failed))
        /\ \A i \in 1..Len(failed_urls) : failed_urls[i][2] \in Reasons
        /\ Urls(newly_scraped) = Urls(SelectSeq(attempted, Succeeded))
    /\ (entry = "bulk" /\ pc = "done" /\ "final_summary" \in Range(tui)) =>
        /\ result = <<"ok">>
        /\ idx = Len(urls_to_scrape)
        /\ CanonUrls(file.rows) \subseteq
              CanonUrls(at_start.file.rows) \cup Range(Urls(newly_scraped))
    /\ (entry = "bulk" /\ result[1] = "err") => result[2] \in {"save", "listing"}

\* C8: failure tolerance of a bulk run: whatever fetches fail, the urls of the capped
\* frontier are attempted once each in frontier order, every failed url is recorded
\* with its reason and adds nothing to the catalog, the run ends, and it returns
\* success unless a save (or the discovery) failed.
C8_FailureTolerance ==
    /\ []C8_Safety
    /\ (entry = "bulk" /\ pc = "loop") ~> (pc = "done")

\* a bulk run returned success after a failed fetch followed by a successful one
C8_Witness ==
    /\ entry = "bulk"
    /\ pc = "done"
    /\ result = <<"ok">>
    /\ Len(attempted) = 2
    /\ ~attempted[1].ok
    /\ attempted[2].ok

\* C9: single-target failure: the run returns an error naming the url, saves nothing
\* (catalog file and backup are as the run found them), and has shown the final
\* summary and the failure report when it returns.
C9_SingleFailure ==
    /\ (entry = "single" /\ pc = "done" /\ failed_urls # <<>>) =>
        /\ result[1] = "err"
        /\ result[3] = options.url
        /\ saves = 0
        /\ file = at_start.file
        /\ backup = at_start.backup
        /\ Len(tui) >= 2
        /\ SubSeq(tui, Len(tui) - 1, Len(tui)) = <<"final_summary", "failure_report">>
    /\ (entry = "single" /\ pc = "single_fetch") => (file = at_start.file /\ saves = 0)

\* a single-target run on an existing catalog file returned the fetch error
C9_Witness ==
    /\ entry = "single"
    /\ pc = "done"
    /\ failed_urls # <<>>
    /\ result[1] = "err"
    /\ file.exists
    /\ file.rows # <<>>

\* C10: deduplicate is idempotent: deduplicate(deduplicate(C)) = deduplicate(C),
\* entry for entry and in the same order.
C10_DedupIdempotent ==
    d_phase = "twice" => d_out2 = d_out

\* a catalog with repeated urls was deduplicated twice
C10_Witness ==
    /\ d_phase = "twice"
    /\ Len(d_out) = 2
    /\ Len(d_in) = 3
    /\ d_out2 = d_out

\* the urls of a sequence in the order of their first occurrence
RECURSIVE FirstOccurrences(_)
FirstOccurrences(urls) ==
    IF urls = <<>> THEN <<>>
    ELSE LET rest == FirstOccurrences(SubSeq(urls, 1, Len(urls) - 1))
             last == urls[Len(urls)]
         IN IF last \in Range(rest) THEN rest ELSE Append(rest, last)

\* the rows of one url, in encounter order
Occurrences(props, url) == SelectSeq(props, LAMBDA p : p.url = url)

\* merge folded from the left over a non-empty sequence of rows
RECURSIVE FoldMerge(_)
FoldMerge(occ) ==
    IF Len(occ) = 1 THEN occ[1]
    ELSE merged_property(FoldMerge(SubSeq(occ, 1, Len(occ) - 1)), occ[Len(occ)])

\* C11: deduplicate keeps the order of first occurrence: the result has one entry
\* per distinct url, the urls are in the order in which they first occur in the
\* input, and the entry of a url is merge folded from the left over the rows of
\* that url in encounter order.
C11_DedupFirstOccurrenceOrder ==
    d_phase # "input" =>
        /\ Urls(d_out) = FirstOccurrences(Urls(d_in))
        /\ \A i \in 1..Len(d_out) : d_out[i] = FoldMerge(Occurrences(d_in, d_out[i].url))

\* a url occurs first, a second url next, the first url again, and the merge
\* changed the first entry
C11_Witness ==
    /\ d_phase = "once"
    /\ Len(d_in) = 3
    /\ d_in[1].url = d_in[3].url
    /\ d_in[2].url # d_in[1].url
    /\ Len(d_out) = 2
    /\ d_out[1] # d_in[1]
    /\ d_out[1] # d_in[3]

Separators == {"?", "#"}

\* index of the first "?" or "#" of a url, Len(url) + 1 if it has neither
FirstSeparator(url) ==
    LET at == {i \in 1..Len(url) : url[i] \in Separators}
    IN IF at = {} THEN Len(url) + 1 ELSE CHOOSE i \in at : \A j \in at : i <= j

\* C12: sanitize_url removes everything from the first "?" or "#" onward,
\* whichever comes first, leaves a url with neither unchanged, and is idempotent.
C12_SanitizeUrl ==
    /\ c_phase # "input" =>
        /\ c_once = SubSeq(c_url, 1, FirstSeparator(c_url) - 1)
        /\ (\A i \in 1..Len(c_url) : c_url[i] \notin Separators) => c_once = c_url
    /\ c_phase = "twice" => c_twice = c_once

\* a url whose fragment comes before its query string was sanitized twice
C12_Witness ==
    /\ c_phase = "twice"
    /\ Len(c_url) = 3
    /\ c_url[2] = "#"
    /\ c_url[3] = "?"
    /\ c_once = <<c_url[1]>>
    /\ c_twice = c_once

\* C13: in the catalog a run has loaded, rows of the file whose urls differ only
\* in query string or fragment do not coexist: the loaded catalog has exactly
\* one entry for each canonical url of the file.
C13_LoadedOneEntryPerCanonicalUrl ==
    (entry # "none" /\ result # <<"killed">>) =>
        \A u \in CanonUrls(at_start.file.rows) :
            Cardinality({i \in 1..Len(loaded) : loaded[i].url = u}) = 1

\* the single-target fetch of this run succeeded and the catalog was updated
SingleUpdated ==
    /\ entry = "single"
    /\ result # <<"killed">>
    /\ attempted # <<>>
    /\ attempted[1].ok

\* C14: a single-target update whose url differs from the url of an existing entry
\* only in its query string or fragment updates that entry in place: no entry is
\* appended, the catalog keeps its length and the entry keeps its position.
C14_SingleComparesCanonicalUrl ==
    \A i \in 1..Len(loaded) :
        (SingleUpdated /\ options.url # loaded[i].url
                       /\ sanitize_url(options.url) = loaded[i].url) =>
            /\ Len(all_properties) = Len(loaded)
            /\ sanitize_url(all_properties[i].url) = loaded[i].url

\* a bulk run in New or Legacy mode that was not killed
DiscoveryMode ==
    /\ entry = "bulk"
    /\ options.refresh_days = None
    /\ result # <<"killed">>

\* the discovered urls that are no identifier of the loaded catalog for this
\* origin, in discovery order
NewUrls ==
    SelectSeq(found_urls, LAMBDA u : u \notin relevant_urls(loaded, options.base_url))

Reobserved(p) ==
    p.url \in Range(found_urls) /\ contains(p.url, options.base_url)

\* the loaded catalog with last_seen set to today on the re-observed entries
LastSeenRefreshed ==
    [i \in 1..Len(loaded) |->
        IF Reobserved(loaded[i]) THEN [loaded[i] EXCEPT !.last_seen = Some(today)]
        ELSE loaded[i]]

\* C16: in New mode, once discovery has re-observed an entry of this origin, the
\* persisted catalog before the first fetch is the loaded catalog with last_seen
\* set to today on every re-observed entry and nothing else changed, and no
\* re-observed url is fetched.
C16_LastSeenRefreshedBeforeFetch ==
    (DiscoveryMode /\ options.new /\ \E i \in 1..Len(loaded) : Reobserved(loaded[i])) =>
        /\ (pc \in {"filter", "cap"} \/ (pc = "loop" /\ idx = 0)) =>
               file.rows = LastSeenRefreshed
        /\ \A k \in 1..Len(attempted) :
               \A i \in 1..Len(loaded) :
                   Reobserved(loaded[i]) => attempted[k].url # loaded[i].url

\* a bulk run in refresh mode that has made its selection and was not killed
RefreshSelected ==
    /\ entry = "bulk"
    /\ options.refresh_days # None
    /\ pc # "select"
    /\ result # <<"killed">>

\* the indexes of the catalog entries refresh mode selected
SelectedIndexes == {relevant_properties[k].pos : k \in 1..Len(relevant_properties)}

\* C17: refresh-by-age with a threshold of N days (at least 1) selects exactly the
\* catalog entries of this origin that are Available and whose last_seen is
\* missing or more than N days before today; an entry last seen N days ago or
\* later, or one that is Sold or Unavailable, is not selected.
C17_RefreshSelectsOlderThanThreshold ==
    RefreshSelected =>
        LET N == Max(options.refresh_days[1], 1) IN
            SelectedIndexes =
                {i \in 1..Len(loaded) :
                    /\ contains(loaded[i].url, options.base_url)
                    /\ loaded[i].listing_type = "Available"
                    /\ (loaded[i].last_seen = None \/ today - loaded[i].last_seen[1] > N)}

\* the entry of the sorted catalog with this url, and its index
SortEntry(u) == CHOOSE i \in 1..Len(s_in) : s_in[i].url = u

\* C18: the refresh-by-age frontier has every entry without a listing date before
\* every entry with one, the dated entries in non-decreasing order of listing
\* date, the undated entries by first_seen, oldest first, and entries that tie in
\* catalog order.
C18_RefreshFrontierOrder ==
    s_phase = "sorted" =>
        /\ Len(s_out) = Len(s_in)
        /\ Range(s_out) = Range(Urls(s_in))
        /\ \A i, j \in 1..Len(s_out) :
            i < j =>
                LET a == s_in[SortEntry(s_out[i])]
                    b == s_in[SortEntry(s_out[j])]
                IN /\ (a.date # None => b.date # None)
                   /\ (a.date # None /\ b.date # None) => a.date[1] <= b.date[1]
                   /\ (a.date = None /\ b.date = None /\ a.first_seen # None
                          /\ b.first_seen # None) => a.first_seen[1] <= b.first_seen[1]
                   /\ (a.date = b.date /\ (a.date = None => a.first_seen = b.first_seen)) =>
                          SortEntry(s_out[i]) < SortEntry(s_out[j])

\* three entries were reordered: the undated one came last in the catalog, and
\* the two dated ones tie
C18_Witness ==
    /\ s_phase = "sorted"
    /\ Len(s_in) = 3
    /\ s_in[1].date # None
    /\ s_in[2].date = s_in[1].date
    /\ s_in[3].date = None
    /\ s_out = <<s_in[3].url, s_in[1].url, s_in[2].url>>

\* C19: full refresh schedules every catalog url of this origin for re-fetch,
\* whatever its last_seen and its listing status, and no other url.  The only
\* mode of run_scraper_with_options that schedules catalog urls is the one
\* refresh_days switches on.
C19_FullRefreshSchedulesEveryOriginUrl ==
    RefreshSelected =>
        SelectedIndexes = {i \in 1..Len(loaded) : contains(loaded[i].url, options.base_url)}

\* the urls handed to scrape_property so far, in order
AttemptedUrls == [k \in 1..Len(attempted) |-> attempted[k].url]

\* the fetches of a bulk run follow the frontier, and a capped run attempts at
\* most max_items of them
FetchesFollowFrontier ==
    (entry = "bulk" /\ result # <<"killed">>) =>
        /\ AttemptedUrls = SubSeq(urls_to_scrape, 1, idx)
        /\ (pc = "done" /\ result = <<"ok">> /\ attempted # <<>>) =>
               AttemptedUrls = urls_to_scrape
        /\ options.max_items # None => Len(attempted) <= options.max_items[1]

\* C20: with an item cap of n the urls fetched in a bulk run are the first
\* min(n, length) urls of the frontier of the mode, in its order, whether the
\* fetches succeed or fail; without a cap the whole frontier is fetched.
C20_ItemCap ==
    /\ []FetchesFollowFrontier
    /\ [][(pc = "cap" /\ pc' = "loop") =>
            urls_to_scrape' =
                IF options.max_items = None THEN urls_to_scrape
                ELSE SubSeq(urls_to_scrape, 1,
                            Min(options.max_items[1], Len(urls_to_scrape)))]_vars

\* two new urls were discovered, the cap is one, and the run ended after
\* attempting the first of them only
C20_Witness ==
    /\ DiscoveryMode
    /\ pc = "done"
    /\ result = <<"ok">>
    /\ options.max_items = Some(1)
    /\ Len(NewUrls) = 2
    /\ AttemptedUrls = <<NewUrls[1]>>

\* no entry of the in-memory catalog is old enough for refresh mode
NoEntryOldEnough ==
    \A i \in 1..Len(all_properties) :
        ~ /\ contains(all_properties[i].url, options.base_url)
          /\ all_properties[i].listing_type = "Available"
          /\ \/ all_properties[i].last_seen = None
             \/ all_properties[i].last_seen[1] <= today - Max(options.refresh_days[1], 1)

\* the step of a bulk run that finds its frontier empty: no entry is old enough,
\* nothing was discovered, or nothing discovered is new
FindsFrontierEmpty ==
    /\ entry = "bulk"
    /\ result' \notin {<<"killed">>, <<"err", "listing">>}
    /\ \/ pc = "select" /\ options.refresh_days # None /\ NoEntryOldEnough
       \/ pc = "select" /\ pc' # "select" /\ options.refresh_days = None /\ found_urls' = <<>>
       \/ pc = "filter" /\ NewUrls = <<>>

\* the loop of a bulk run was given an empty frontier (an item cap of 0)
LoopOnEmptyFrontier == entry = "bulk" /\ pc = "loop" /\ urls_to_scrape = <<>>

\* C21: a bulk run whose frontier is empty (nothing discovered, nothing new, no
\* entry old enough, or an item cap of 0) attempts no fetch, saves nothing more,
\* shows a status with nothing to fetch and returns success.
C21_EmptyFrontierIsSuccess ==
    /\ [][FindsFrontierEmpty =>
            /\ pc' = "done"
            /\ result' = <<"ok">>
            /\ attempted' = <<>>
            /\ saves' = saves
            /\ tui'[Len(tui')] = "listing_status"]_vars
    /\ [](LoopOnEmptyFrontier => attempted = <<>>)
    /\ [][LoopOnEmptyFrontier =>
            \/ result' = <<"killed">>
            \/ /\ pc' = "done"
               /\ result' = <<"ok">>
               /\ attempted' = <<>>
               /\ saves' = saves
               /\ SubSeq(tui', Len(tui') - 1, Len(tui')) = <<"final_summary", "failure_report">>]_vars
    /\ LoopOnEmptyFrontier ~> (pc = "done")

\* a run with an item cap of 0 discovered a new url, fetched nothing and
\* returned success
C21_Witness ==
    /\ entry = "bulk"
    /\ pc = "done"
    /\ result = <<"ok">>
    /\ options.max_items = Some(0)
    /\ NewUrls # <<>>
    /\ attempted = <<>>
    /\ tui[Len(tui)] = "failure_report"

\* C22: a snapshot reconciled for a url that has no entry yet becomes an entry
\* with the fields of the snapshot and first_seen = last_seen = today, whatever
\* tracking dates the snapshot carried; a catalog of one snapshot has one entry.
C22_FirstInsertIsDatedToday ==
    d_phase # "input" =>
        /\ Len(d_in) = 1 => Len(d_out) = 1
        /\ \A i \in 1..Len(d_out) :
               LET occ == Occurrences(d_in, d_out[i].url) IN
                   Len(occ) = 1 =>
                       d_out[i] = [occ[1] EXCEPT !.first_seen = Some(today),
                                                 !.last_seen = Some(today)]

\* C23: in a disappearance transition (the snapshot is Unavailable, the entry is
\* not) the merged entry is Unavailable, has the price of the entry, and has the
\* first_seen and the last_seen of the entry: last_seen does not move to the date
\* of the failed observation.
C23_DisappearanceKeepsPriceAndDates ==
    (m_site # "none" /\ BecameUnavailable(m_existing, m_fresh)) =>
        /\ m_merged.listing_type = "Unavailable"
        /\ m_merged.price = m_existing.price
        /\ m_merged.first_seen = m_existing.first_seen
        /\ m_merged.last_seen = m_existing.last_seen

\* C24: in every merge with an existing entry, in either branch and at either
\* merge site, the merged status is the status of the snapshot; so after any
\* sequence of merges the status is that of the last snapshot merged.
C24_StatusIsFreshStatus ==
    m_site # "none" => m_merged.listing_type = m_fresh.listing_type

\* an entry that was Unavailable is Available again after an Available snapshot
C24_Witness ==
    /\ m_site # "none"
    /\ m_existing.listing_type = "Unavailable"
    /\ m_fresh.listing_type = "Available"
    /\ m_merged.listing_type = "Available"

\* C25: in a normal update every descriptive field whose value in the snapshot is
\* not a sentinel has the value of the snapshot, also when the entry had none.
C25_NormalUpdateTakesFreshValue ==
    (m_site # "none" /\ ~BecameUnavailable(m_existing, m_fresh)) =>
        \A f \in DescriptiveFields :
            ~IsSentinel(f, m_fresh[f]) => m_merged[f] = m_fresh[f]

\* the entry has no address, the snapshot has one
C25_Witness ==
    /\ m_site # "none"
    /\ ~BecameUnavailable(m_existing, m_fresh)
    /\ m_existing.address = None
    /\ m_fresh.address = Some("Main St 1")
    /\ m_merged.address = Some("Main St 1")

\* the earlier of two optional dates; the one that is set when only one is
EarlierOf(a, b) ==
    IF a = None THEN b
    ELSE IF b = None THEN a
    ELSE IF b[1] < a[1] THEN b ELSE a

\* C26: in a normal update the merged first_seen is the earlier of the first_seen
\* of the entry and that of the snapshot when both are set, and the one that is
\* set when only one is: a snapshot with an earlier first_seen lowers it.
C26_FirstSeenIsEarlier ==
    (m_site # "none" /\ ~BecameUnavailable(m_existing, m_fresh)) =>
        m_merged.first_seen = EarlierOf(m_existing.first_seen, m_fresh.first_seen)

\* C28: when a save overwrites an existing catalog file, the backup holds exactly
\* what the catalog file held when that save began, and it does so already at the
\* step that truncates the catalog file; after every completed save the backup is
\* the version before that save only; a save that finds no catalog file writes no
\* backup.
C28_BackupBeforeOverwrite ==
    [][/\ (pc = "save_create" /\ pc' = "save_write" /\ file.exists) =>
             (backup = file /\ backup' = file)
       /\ (saves' = saves + 1) =>
             IF pre_save.exists THEN backup' = pre_save
                                ELSE backup' = at_start.backup]_vars

\* the second save of a run has replaced the backup of the first: the backup is
\* the catalog of the first save, no longer the file the run found
C28_Witness ==
    /\ saves >= 2
    /\ at_start.file.exists
    /\ backup = pre_save
    /\ backup # at_start.file
    /\ backup.rows # file.rows

\* C27: for an entry and two snapshots of its url of the same day, one that
\* triggers a disappearance merge on the entry and one that triggers a normal
\* update, the entry has the same status whichever of the two is merged first.
C27_StatusOrderInvariant ==
    (/\ o_site # "none"
     /\ BecameUnavailable(o_existing, o_first)
     /\ ~BecameUnavailable(o_existing, o_second)) =>
        o_ab.listing_type = o_ba.listing_type

\* a record of the file lacks required columns
HasInvalidRecord(f) ==
    f.exists /\ \E i \in 1..Len(f.rows) : DOMAIN f.rows[i] # RequiredColumns

\* C29: load is all or nothing: a run started on a catalog file with a
\* structurally invalid record gets the load error and no entries, attempts no
\* fetch, performs no save, and leaves the catalog file and the backup as they were.
C29_LoadAllOrNothing ==
    (entry # "none" /\ HasInvalidRecord(at_start.file)) =>
        /\ pc = "done"
        /\ result = <<"err", "load">>
        /\ loaded = <<>>
        /\ all_properties = <<>>
        /\ attempted = <<>>
        /\ saves = 0
        /\ file = at_start.file
        /\ backup = at_start.backup

\* a bulk run ended on a file whose first record is valid and whose second is not
C29_Witness ==
    /\ entry = "bulk"
    /\ result = <<"err", "load">>
    /\ Len(at_start.file.rows) = 2
    /\ deserialize(at_start.file.rows[1]).ok
    /\ at_start.file.rows[2] = ShortRow
    /\ at_start.backup.exists

\* every record has the required columns, and some enum column holds a token that
\* names no variant
HasUnknownToken(f) ==
    /\ f.exists
    /\ \A i \in 1..Len(f.rows) : DOMAIN f.rows[i] = RequiredColumns
    /\ \E i \in 1..Len(f.rows) :
          \/ f.rows[i].property_type \notin PropertyTypes
          \/ f.rows[i].listing_type \notin ListingTypes

\* C30: an unrecognized token in the property_type or listing_type column does not
\* fail the load: the run that starts has loaded every row, and an unrecognized
\* property_type is Unknown.
C30_UnknownTokenDoesNotFailLoad ==
    [][(pc = "idle" /\ pc' # "idle" /\ HasUnknownToken(file)) =>
          /\ result' # <<"err", "load">>
          /\ Len(loaded') = Len(file.rows)
          /\ \A i \in 1..Len(file.rows) :
                file.rows[i].property_type \notin PropertyTypes
                    => loaded'[i].property_type = "Unknown"]_vars

\* C31: a catalog with canonical urls that is saved and loaded back is the same
\* sequence of entries, whatever the property type, the status and the optional
\* fields; an entry saved as unavailable is loaded as Unavailable.
C31_SaveLoadRoundTrip ==
    r_phase \in {"loaded", "failed"} => (r_phase = "loaded" /\ r_out = r_in)

\* C32: a save of a bulk run that fails (the last_seen write of New mode or a
\* checkpoint) ends the run with an error at once, and no fetch is attempted after
\* it, whatever is left of the frontier.
C32_FailedSaveIsFatal ==
    [][/\ (/\ entry = "bulk"
           /\ pc \in SaveStages /\ pc' \notin SaveStages
           /\ saves' = saves /\ result' # <<"killed">>) =>
              (pc' = "done" /\ result' = <<"err", "save">> /\ attempted' = attempted)
       /\ (entry = "bulk" /\ result = <<"err", "save">>) =>
              (pc' = "done" /\ attempted' = attempted /\ result' = result)]_vars

\* a checkpoint failed after the first fetch while the frontier had another url
C32_Witness ==
    /\ entry = "bulk"
    /\ result = <<"err", "save">>
    /\ Len(attempted) = 1
    /\ Len(urls_to_scrape) = 2

\* the urls fetched successfully by the run, in fetch order
FetchedUrls == Urls(SelectSeq(attempted, Succeeded))

\* C33: in every catalog file a run has written (bulk or single-target) the urls of
\* the loaded catalog come first, in their order in the loaded catalog, and the
\* urls first seen in this run follow them in the order they were fetched.
C33_CatalogOrderPreserved ==
    [][saves' = saves + 1 =>
          FirstOccurrences(Urls(file'.rows))
              = FirstOccurrences(Urls(loaded) \o FetchedUrls)]_vars

\* two loaded entries are followed by the entry of a url fetched by this run
C33_Witness ==
    /\ saves > 0
    /\ pc \notin SaveStages
    /\ Len(loaded) = 2
    /\ Len(file.rows) = 3
    /\ Urls(SubSeq(file.rows, 1, 2)) = Urls(loaded)
    /\ file.rows[3].url \in Range(FetchedUrls)
    /\ file.rows[1].url # file.rows[2].url

\* C34: two runs on one catalog file are unsafe: a run that loads after the save
\* of the other run has truncated the file and before that save has written all
\* rows starts from an incomplete catalog: it has loaded the rows written so far,
\* fewer than the catalog being saved.
C34_RacingLoadIsIncomplete ==
    q_other.torn =>
        /\ q_other.pc = "loaded"
        /\ Len(q_other.loaded) < Len(q_rows)
        /\ q_other.loaded = SubSeq(q_rows, 1, Len(q_other.loaded))

\* the other run loaded inside the save and misses an entry the file held before
C34_Witness ==
    /\ q_other.torn
    /\ q_backup.exists
    /\ \E u \in CanonUrls(q_backup.rows) : u \notin Range(Urls(q_other.loaded))

\* C35: a single-target update reconciles as deduplicate does: for a catalog with
\* unique urls and a snapshot whose url is the requested url, the catalog
\* scrape_single_url saves is deduplicate(catalog followed by the snapshot), entry
\* for entry and in the same order.
C35_SingleUpdateIsDeduplicate ==
    e_phase = "updated" => e_single = e_dedup

\* the snapshot was merged into the first of two entries, in place
C35_Witness ==
    /\ e_phase = "updated"
    /\ Len(e_catalog) = 2
    /\ e_catalog[1].url = e_property.url
    /\ e_single[1] # e_catalog[1]
    /\ e_single[1] # e_property
    /\ e_single[2] = e_catalog[2]

\* C36: batch and incremental reconciliation agree: deduplicate(deduplicate(X)
\* followed by Y) is deduplicate(X followed by Y); and the file of the k-th
\* checkpoint, reloaded and extended with the later snapshots, reconciles to the
\* catalog recomputed in memory from the loaded catalog.
C36_BatchEqualsIncremental ==
    b_phase = "reconciled" =>
        /\ b_incremental = b_batch
        /\ b_reloaded = b_batch

\* C37: origin isolation: a bulk run fetches no url that lacks the base url of its
\* source, and in every catalog file it writes each entry of the loaded catalog
\* (unique urls) whose url lacks it is as it was loaded, in every field.
C37_OriginIsolation ==
    [][entry = "bulk" =>
          /\ \A k \in 1..Len(attempted') :
                attempted'[k].ok => contains(attempted'[k].url, options.base_url)
          /\ (saves' = saves + 1 /\ NoDuplicateUrls(loaded)) =>
                \A i \in 1..Len(loaded) :
                    ~contains(loaded[i].url, options.base_url)
                        => loaded[i] \in Range(file'.rows)]_vars

\* the listing showed the url of another origin, which is in the catalog; the run
\* was refused that url, fetched a url of its own origin and saved
C37_Witness ==
    /\ entry = "bulk"
    /\ saves > 0
    /\ pc \notin SaveStages
    /\ \E i \in 1..Len(loaded) : loaded[i].url = V1 /\ loaded[i] \in Range(file.rows)
    /\ \E k \in 1..Len(attempted) : attempted[k].url = V1 /\ ~attempted[k].ok
    /\ \E k \in 1..Len(attempted) : attempted[k].ok

\* C38: merge_properties_with_refresh keeps every entry: for an existing catalog
\* with unique urls and any ScrapingResult, every url of existing_properties is in
\* the result exactly once, an entry for whose url nothing was scraped is as it
\* was, and the result has one entry per url.
C38_RefreshMergeKeepsEveryEntry ==
    w_phase = "merged" =>
        /\ \A i \in 1..Len(w_existing) : Len(Occurrences(w_out, w_existing[i].url)) = 1
        /\ \A i \in 1..Len(w_existing) :
              w_existing[i].url \notin Range(Urls(w_result.scraped_properties))
                  => w_existing[i] \in Range(w_out)
        /\ NoDuplicateUrls(w_out)

\* C39: in a legacy per-platform sequencer with max_items = n at most n property pages are
\* fetched in one run, whatever fetches fail and whatever urls are known; without
\* max_items every url that is not known is fetched
C39_MaxItemsBoundsFetches ==
    /\ g_max_items # None => Len(g_fetched) <= g_max_items[1]
    /\ g_max_items = None /\ g_phase = "done" =>
           \A i \in 1..Len(g_urls) :
               g_urls[i] \notin g_existing => g_urls[i] \in Range(g_fetched)

\* C40: legacy paged enumeration with page cap N requests at most N listing pages (none
\* when N = 0), in increasing page number, and none after the first page that was empty
\* or failed, for vol.at and for laendleimmo.at
C40_PagedEnumerationStops ==
    /\ Len(g_requested) <= g_max_pages
    /\ \A i \in 1..Len(g_requested) : g_requested[i].page = i
    /\ \A i \in 1..Len(g_requested) : g_requested[i].outcome # "urls" => i = Len(g_requested)

====
